---- MODULE Spec2Model ----
(***************************************************************************)
(* A model of the NBA game recommender:                                    *)
(*   - BuzzScorer (src/core/buzz_scorer.py): score_games, _call_claude and *)
(*     _parse_response, specification Spec;                                *)
(*   - the data provider adapters: BallDontLieClient                       *)
(*     (src/api/balldontlie_client.py) and the primary NBAClient,          *)
(*     specifications LeadSpec, AdapterSpec, WindowSpec, LeadCountSpec,    *)
(*     DetailSpec and RefSpec;                                             *)
(*   - the HTTP routes of interfaces/api_server.py and                     *)
(*     interfaces/web/app.py, specification ApiSpec, and the request cache *)
(*     of interfaces/web/app.py, specification CacheSpec;                  *)
(*   - the API key lookup and the constructor of BuzzScorer,               *)
(*     specifications KeySpec and CtorSpec;                                *)
(*   - the ranking of the scored games, specification RankSpec, and the    *)
(*     date window under fair scheduling, specification WindowFairSpec;    *)
(*   - the sync endpoint beside concurrent requests, specification         *)
(*     SyncSpec, and concurrent cache cleanups, specification OverflowSpec.*)
(***************************************************************************)
EXTENDS Integers, Sequences, FiniteSets, TLC

VARIABLES
    api_key,        \* BuzzScorer.api_key: "none" (None) or "key"
    pc,             \* position of the score_games call
    games,          \* the batch handed to score_games (game_ids, in order)
    records,        \* the game dicts of the batch, as the caller holds them
    calls,          \* number of invocations of _call_claude
    requests,       \* number of client.messages.create requests sent
    continuations,  \* iterations of the pause_turn loop that sent a request
    response,       \* the local variable response of _call_claude
    parsed,         \* id of the response handed to _parse_response (0: none)
    parse_result,   \* what _parse_response did: returned a mapping, or raised
    path,           \* the path score_games took
    raised,         \* the exception _call_claude raised ("none": none)
    result,         \* the mapping score_games returned
    est_home_score,     \* _estimate_lead_changes: argument home_score
    est_visitor_score,  \* its argument visitor_score
    estimate,       \* _estimate_lead_changes: returned value (-1: not called)
    adapter,        \* which adapter served the per-date fetch
    upstream,       \* the upstream answer to the per-date request
    daily,          \* the list the per-date fetch returned
    win_adapter,    \* the adapter whose get_games_last_n_days is called
    win_pc,         \* position of the get_games_last_n_days call
    win_days,       \* its argument days
    win_current,    \* current_date, as the day of January 2024
    win_games,      \* the list games it accumulates and returns
    win_answers,    \* the upstream answers to its requests, in order
    win_log,        \* the requests it sent and the sleeps it took, in order
    http_pc,        \* position of the HTTP request being served
    http_route,     \* the route of the request
    http_args,      \* request.args: the query parameters given
    http_window,    \* what the data provider has for the window asked for
    rec_calls,      \* the calls made to the recommender / game service
    http_status,    \* status code of the answer
    http_body,      \* JSON body of the answer
    lc_actions,     \* _calculate_lead_changes: its argument actions
    lc_result,      \* its returned value (-1: not called)
    det_pc,         \* position of the primary per-date fetch with details
    det_upstream,   \* the scoreboard games of the date
    det_details,    \* for each scoreboard game, what its detail requests get
    det_result,     \* the list the fetch returned
    top5_cache,     \* NBAClient: the cached Top-5-Teams set, or none
    stars_cache,    \* NBAClient: the cached Star-Players set, or none
    ref_requests,   \* upstream requests sent for each reference set
    ref_returned,   \* what the last access of a reference set returned
    ref_accesses,   \* number of accesses and invalidations so far
    request_cache,  \* app.py _request_cache, entries in insertion order
    cache_now,      \* datetime.now(), in seconds
    cache_calls,    \* completed calls of get_cached_or_fetch
    cache_last,     \* the last call: its key, what it returned, hit or miss
    fetch_count,    \* calls of fetch_func so far
    ctor_arg,       \* BuzzScorer.__init__: its argument api_key
    key_run,        \* _get_api_key: what subprocess.run did
    key_env,        \* _get_api_key: the environment's ANTHROPIC_API_KEY
    key_result,     \* _get_api_key: what it returned or raised
    rank_pc,        \* calls of get_all_games_ranked made so far
    rank_fetched,   \* the scored games of the first call, in fetch order
    rank_refetched, \* the same games as the second call fetched them
    rank_first,     \* the ranking the first call returned
    rank_second,    \* the ranking the second call returned
    th_pc,          \* per request thread: its position in get_cached_or_fetch
    th_key,         \* per thread: cache_key
    th_data,        \* per thread: fresh_data, the data version it fetched
    th_sorted,      \* per thread: the keys of sorted_keys[:50] still to delete
    th_result,      \* per thread: what the call returned, or what it raised
    th_late,        \* per thread: the request began after a sync had completed
    sync_pc,        \* position of the POST /api/sync request
    sync_token,     \* the configured SYNC_TOKEN
    sync_header,    \* the X-Sync-Token header of the request
    sync_status,    \* status code of the answer to the sync request
    sync_ran,       \* calls of sync_all so far
    db_version      \* version of the data in the local database

buzzVars == <<api_key, pc, games, records, calls, requests, continuations, response,
              parsed, parse_result, path, raised, result>>
leadVars == <<est_home_score, est_visitor_score, estimate>>
adapterVars == <<adapter, upstream, daily>>
windowVars == <<win_adapter, win_pc, win_days, win_current, win_games,
                win_answers, win_log>>
httpVars == <<http_pc, http_route, http_args, http_window, rec_calls,
              http_status, http_body>>
lcVars == <<lc_actions, lc_result>>
detVars == <<det_pc, det_upstream, det_details, det_result>>
refVars == <<top5_cache, stars_cache, ref_requests, ref_returned, ref_accesses>>
cacheVars == <<request_cache, cache_now, cache_calls, cache_last, fetch_count>>
keyVars == <<ctor_arg, key_run, key_env, key_result>>
rankVars == <<rank_pc, rank_fetched, rank_refetched, rank_first, rank_second>>
concVars == <<th_pc, th_key, th_data, th_sorted, th_result, th_late, sync_pc,
              sync_token, sync_header, sync_status, sync_ran, db_version>>
moreVars == <<keyVars, rankVars, concVars>>
restVars == <<windowVars, httpVars, lcVars, detVars, refVars, cacheVars,
              moreVars>>
\* What the actions of one part of the model leave alone.
oldVars == <<buzzVars, leadVars, adapterVars>>
windowOthers == <<oldVars, httpVars, lcVars, detVars, refVars, cacheVars,
                  moreVars>>
httpOthers == <<oldVars, windowVars, lcVars, detVars, refVars, cacheVars,
                  moreVars>>
lcOthers == <<oldVars, windowVars, httpVars, detVars, refVars, cacheVars,
                  moreVars>>
detOthers == <<oldVars, windowVars, httpVars, lcVars, refVars, cacheVars,
                  moreVars>>
refOthers == <<oldVars, windowVars, httpVars, lcVars, detVars, cacheVars,
                  moreVars>>
cacheOthers == <<oldVars, windowVars, httpVars, lcVars, detVars, refVars,
                  moreVars>>
baseVars == <<oldVars, windowVars, httpVars, lcVars, detVars, refVars,
              cacheVars>>
keyOthers == <<leadVars, adapterVars, windowVars, httpVars, lcVars, detVars,
               refVars, cacheVars, rankVars, concVars>>
rankOthers == <<baseVars, keyVars, concVars>>
concOthers == <<oldVars, windowVars, httpVars, lcVars, detVars, refVars,
                keyVars, rankVars, cache_now, cache_calls, cache_last,
                fetch_count>>
vars == <<buzzVars, leadVars, adapterVars, restVars>>

----------------------------------------------------------------------------
(* Constants of the program and bounds of the model.                       *)

MAX_BUZZ_SCORE == 40
MaxContinuations == 3

\* _estimate_lead_changes is applied to every pair of scores up to MaxScore.
MaxScore == 20

\* The upstream answer for one date lists at most MaxDayGames games.
MaxDayGames == 2

\* get_games_last_n_days is called with days up to MaxDays.
MaxDays == 2

\* The days query parameter is a string of at most MaxArgLen characters.
MaxArgLen == 2

\* _calculate_lead_changes is applied to at most MaxActions score snapshots.
MaxActions == 4

\* The scoreboard of the date fetched with details lists at most MaxDetGames
\* games.
MaxDetGames == 2

\* The reference sets are accessed or invalidated at most MaxAccesses times.
MaxAccesses == 4

\* get_cached_or_fetch is called at most MaxCacheCalls times on the cache it
\* starts with.
MaxCacheCalls == 3

\* The most games a ranked window holds.
MaxRankGames == 3

GameIds == {"g1", "g2"}

\* The batches: game_id is unique per game, so a batch repeats no id.
Batches ==
    {<<>>} \cup {<<g>> : g \in GameIds}
           \cup {<<g, h>> : <<g, h>> \in {p \in GameIds \X GameIds : p[1] # p[2]}}

Ids(gs) == {gs[i] : i \in 1..Len(gs)}

\* The dict of a game of the batch, with the keys score_games reads (lines
\* 107-112 and 83-84).
GameRecord(g) ==
    [game_id |-> g,
     game_date |-> "2024-01-15",
     home_team |-> [abbr |-> IF g = "g1" THEN "LAL" ELSE "MIA", score |-> 110],
     away_team |-> [abbr |-> IF g = "g1" THEN "BOS" ELSE "NYK", score |-> 105],
     total_points |-> 215,
     final_margin |-> 5]

RecordsOf(gs) == [i \in 1..Len(gs) |-> GameRecord(gs[i])]

----------------------------------------------------------------------------
(* Python numbers as json.loads and float() produce them.                  *)

Num(n) == [k |-> "num", v |-> n]
NaN == [k |-> "nan"]
PosInf == [k |-> "inf"]
NegInf == [k |-> "ninf"]

\* The score fields a reply can carry: JSON integers, the literals NaN,
\* Infinity and -Infinity that json.loads accepts, a non-numeric string, and
\* an integer literal beyond the range of a double.
RawScores ==
    {[k |-> "int", v |-> n] : n \in {-5, 0, 20, 40, 41}}
        \cup {NaN, PosInf, NegInf, [k |-> "str"], [k |-> "big"]}

\* a < b on Python floats: every comparison with NaN is False.
PyLess(a, b) ==
    CASE a.k = "nan" \/ b.k = "nan" -> FALSE
      [] a.k = "ninf" -> b.k # "ninf"
      [] a.k = "inf" -> FALSE
      [] b.k = "ninf" -> FALSE
      [] b.k = "inf" -> TRUE
      [] OTHER -> a.v < b.v

\* min(a, b) keeps a unless b < a; max(a, b) keeps a unless b > a.
PyMin(a, b) == IF PyLess(b, a) THEN b ELSE a
PyMax(a, b) == IF PyLess(a, b) THEN b ELSE a

\* float(raw_score): the converted number, or the exception it raises.
PyFloat(raw) ==
    CASE raw.k = "int" -> [ok |-> TRUE, val |-> Num(raw.v)]
      [] raw.k \in {"nan", "inf", "ninf"} -> [ok |-> TRUE, val |-> raw]
      [] raw.k = "str" -> [ok |-> FALSE, exc |-> "ValueError"]
      [] raw.k = "big" -> [ok |-> FALSE, exc |-> "OverflowError"]

ClampNoFloor(x) == PyMin(Num(MAX_BUZZ_SCORE), x)

\* max(0, min(MAX_BUZZ_SCORE, float(raw_score)))
Clamp(x) == PyMax(Num(0), PyMin(Num(MAX_BUZZ_SCORE), x))

----------------------------------------------------------------------------
(* The reply of the provider.  A text is a sequence of tokens:             *)
(*   "{" "}"  the braces of the outermost JSON object (or of prose),       *)
(*   "x"      the members of the JSON object keyed by game_id (payload),   *)
(*   "v"      a JSON value that is not an object (a list, a number),       *)
(*   "p"      prose,  "n"  a newline,                                      *)
(*   "f"      a markdown fence (three backquotes),  "j"  the tag json.     *)

NoKey == [k |-> "nokey"]

Obj(raw, hasReasoning, r) ==
    [t |-> "obj", score |-> raw, hasReasoning |-> hasReasoning, reasoning |-> r]

Absent == [t |-> "absent"]
NotObj == [t |-> "notobj"]
EmptyDict == Obj(NoKey, FALSE, "")

ReasoningOf(g) == IF g = "g1" THEN "r1" ELSE "r2"

\* What the reply can hold under one game_id: nothing, a value that is not
\* an object, or an object with or without its score and reasoning keys.
Entries(g) ==
    {Absent, NotObj, Obj(NoKey, TRUE, ReasoningOf(g)),
     Obj([k |-> "int", v |-> 20], FALSE, "")}
        \cup {Obj(raw, TRUE, ReasoningOf(g)) : raw \in RawScores}

Payloads == {f \in [GameIds -> UNION {Entries(g) : g \in GameIds}] :
                \A g \in GameIds : f[g] \in Entries(g)}

NoEntries == [g \in GameIds |-> Absent]

Json == <<"{", "x", "}">>

Texts ==
    { <<>>,                                          \* no text at all
      <<"p">>,                                       \* prose only
      <<"v">>,                                       \* JSON, not an object
      <<"{", "}">>,                                  \* the empty object
      Json,                                          \* the object alone
      <<"n">> \o Json \o <<"n">>,                    \* surrounding whitespace
      <<"p", "n">> \o Json,                          \* preamble
      Json \o <<"n", "p">>,                          \* trailing prose
      <<"p">> \o Json \o <<"p">>,                    \* prose on both sides
      <<"p", "{", "p", "}", "p">> \o Json,           \* braces in the preamble
      <<"p">> \o Json \o <<"p", "{", "p", "}">>,     \* braces after the object
      Json \o <<"n">> \o Json,                       \* two objects
      <<"f", "j", "n">> \o Json \o <<"n", "f">>,     \* fenced, tagged
      <<"f", "n">> \o Json \o <<"n", "f">>,          \* fenced, untagged
      <<"p", "n", "f", "j", "n">> \o Json \o <<"n", "f", "n", "p">>,
      <<"f", "j", "n", "p">> \o Json \o <<"n", "f">>,  \* prose inside the fence
      <<"f", "j">> \o Json \o <<"f">>,               \* fence on one line
      <<"p", "{", "p", "}", "n", "f", "j", "n">> \o Json \o <<"n", "f">>,
      <<"f", "n", "n", "f">> }                       \* an empty fenced block

HasToken(s, c) == \E i \in 1..Len(s) : s[i] = c

TextBlock(t) == [type |-> "text", text |-> t]
ToolBlock == [type |-> "tool"]

\* response.content: text blocks and web-search blocks, in order.
Contents ==
    {<<>>, <<ToolBlock>>}
        \cup {<<TextBlock(t)>> : t \in Texts}
        \cup {<<ToolBlock, TextBlock(t)>> : t \in {Json, <<"p">>}}
        \cup {<<TextBlock(t), ToolBlock>> : t \in {Json}}
        \cup {<<TextBlock(a), TextBlock(b)>> :
                <<a, b>> \in {<<"p">>, Json, <<>>} \X {<<"p">>, Json, <<>>}}

MentionsPayload(content) ==
    \E i \in 1..Len(content) :
        "text" \in DOMAIN content[i] /\ HasToken(content[i].text, "x")

\* The entries a reply carries; a reply without the token "x" carries none.
PayloadsOf(content) == IF MentionsPayload(content) THEN Payloads ELSE {NoEntries}

----------------------------------------------------------------------------
(* String operations of _parse_response, on token sequences.               *)

RECURSIVE LStrip(_)
LStrip(s) == IF s # <<>> /\ Head(s) = "n" THEN LStrip(Tail(s)) ELSE s

RECURSIVE RStrip(_)
RStrip(s) ==
    IF s # <<>> /\ s[Len(s)] = "n" THEN RStrip(SubSeq(s, 1, Len(s) - 1)) ELSE s

\* str.strip()
Strip(s) == RStrip(LStrip(s))

\* str.find(c) and str.rfind(c), 1-based; 0 stands for Python -1.
Find(s, c) ==
    IF HasToken(s, c)
    THEN CHOOSE i \in 1..Len(s) : s[i] = c /\ \A j \in 1..(i - 1) : s[j] # c
    ELSE 0

RFind(s, c) ==
    IF HasToken(s, c)
    THEN CHOOSE i \in 1..Len(s) : s[i] = c /\ \A j \in (i + 1)..Len(s) : s[j] # c
    ELSE 0

\* The number of consecutive newlines of s from position a on.
RECURSIVE WsRun(_, _)
WsRun(s, a) == IF a <= Len(s) /\ s[a] = "n" THEN 1 + WsRun(s, a + 1) ELSE 0

\* re.search of  FENCE(?:json)?\s*\n(.*?)\nFENCE  with re.DOTALL, tried at the fence
\* at position i: the pairs <<gs, e>> such that group 1 is s[gs..e-1].  The
\* optional tag is taken when present; \s*\n takes between 1 and all of the
\* newlines that follow; the group ends before a newline followed by a fence.
FenceCandidates(s, i) ==
    LET a == IF i + 1 <= Len(s) /\ s[i + 1] = "j" THEN i + 2 ELSE i + 1
        k == WsRun(s, a)
    IN  {c \in ((a + 1)..(a + k)) \X (1..Len(s)) :
            /\ c[2] >= c[1]
            /\ c[2] + 1 <= Len(s)
            /\ s[c[2]] = "n"
            /\ s[c[2] + 1] = "f"}

\* The match the regex engine reports: the leftmost fence that matches, with
\* \s* greedy (the latest group start) and the group lazy (the earliest end).
FenceMatch(s) ==
    LET starts == {i \in 1..Len(s) : s[i] = "f" /\ FenceCandidates(s, i) # {}}
    IN  IF starts = {} THEN [found |-> FALSE]
        ELSE LET i == CHOOSE x \in starts : \A y \in starts : x <= y
                 cs == FenceCandidates(s, i)
                 gs == CHOOSE g \in {c[1] : c \in cs} :
                            \A c \in cs : c[1] <= g
                 e == CHOOSE x \in {c[2] : c \in {d \in cs : d[1] = gs}} :
                            \A c \in {d \in cs : d[1] = gs} : x <= c[2]
             IN  [found |-> TRUE, group |-> SubSeq(s, gs, e - 1)]

\* Lines 186-190: the content of the first fenced block, when there is one.
AfterFence(s) ==
    IF HasToken(s, "f") /\ FenceMatch(s).found THEN FenceMatch(s).group ELSE s

BraceSliceAlways(s) ==
    LET b == Find(s, "{")
        e == RFind(s, "}")
    IN  IF b # 0 /\ e # 0 THEN SubSeq(s, b, e) ELSE s

\* Lines 192-197: unless json_str starts with "{", the slice from the first
\* "{" to the last "}".
BraceSlice(s) ==
    IF s # <<>> /\ Head(s) = "{"
    THEN s
    ELSE LET b == Find(s, "{")
             e == RFind(s, "}")
         IN  IF b # 0 /\ e # 0 THEN SubSeq(s, b, e) ELSE s

RECURSIVE DropWs(_)
DropWs(s) ==
    IF s = <<>> THEN <<>>
    ELSE IF Head(s) = "n" THEN DropWs(Tail(s)) ELSE <<Head(s)>> \o DropWs(Tail(s))

\* json.loads(json_str): whitespace between tokens is ignored; one object or
\* one other value parses, anything else raises JSONDecodeError.
JsonLoads(s, payload) ==
    LET t == DropWs(s)
    IN  CASE t = Json -> [kind |-> "dict", scores |-> payload]
          [] t = <<"{", "}">> -> [kind |-> "dict", scores |-> NoEntries]
          [] t = <<"v">> -> [kind |-> "other"]
          [] OTHER -> [kind |-> "JSONDecodeError"]

----------------------------------------------------------------------------
(* BuzzScorer._parse_response                                              *)

ZeroResult == [score |-> Num(0), reasoning |-> ""]

\* {g["game_id"]: {"score": 0, "reasoning": ""} for g in games}
Zeros(gs) == [g \in Ids(gs) |-> ZeroResult]

\* Lines 174-177: text is the text of the last block that has one.
RECURSIVE LastTextFrom(_, _)
LastTextFrom(content, text) ==
    IF content = <<>> THEN text
    ELSE LastTextFrom(Tail(content),
                      IF "text" \in DOMAIN Head(content)
                      THEN Head(content).text ELSE text)

LastText(content) == LastTextFrom(content, <<>>)

\* Lines 184-197: json_str.
ExtractJson(text) == BraceSlice(AfterFence(Strip(text)))

\* Lines 209-215 for one game: entry, raw_score, reasoning, clamped.
EntryResult(scores, gid) ==
    LET entry == IF scores[gid] = Absent THEN EmptyDict ELSE scores[gid]
        isDict == entry.t = "obj"
        raw == IF isDict /\ entry.score # NoKey
               THEN entry.score ELSE [k |-> "int", v |-> 0]
        reasoning == IF isDict /\ entry.hasReasoning THEN entry.reasoning ELSE ""
        fl == PyFloat(raw)
    IN  IF fl.ok
        THEN [ok |-> TRUE, val |-> [score |-> Clamp(fl.val), reasoning |-> reasoning]]
        ELSE [ok |-> FALSE, exc |-> fl.exc]

Returned(m) == [kind |-> "return", map |-> m]
Raised(e) == [kind |-> "raise", exc |-> e]
NotParsed == [kind |-> "none"]

BuildResultFromReply(scores, gs) ==
    [g \in {h \in GameIds : scores[h] # Absent} |-> EntryResult(scores, g).val]

\* Lines 206-217: the result holds one entry per game of the batch.
BuildResult(scores, gs) == [g \in Ids(gs) |-> EntryResult(scores, g).val]

\* Lines 171-217.  json.JSONDecodeError is the only exception handled here;
\* scores.get on a value that is not a dict, and float() on a score it cannot
\* convert, raise out of _parse_response at the first game they meet.
ParseResponse(content, payload, gs) ==
    LET text == LastText(content)
        loaded == JsonLoads(ExtractJson(text), payload)
    IN  IF text = <<>> THEN Returned(Zeros(gs))
        ELSE IF loaded.kind = "JSONDecodeError" THEN Returned(Zeros(gs))
        ELSE IF gs = <<>> THEN Returned(<<>>)
        ELSE IF loaded.kind = "other" THEN Raised("AttributeError")
        ELSE LET bad == {i \in 1..Len(gs) : ~EntryResult(loaded.scores, gs[i]).ok}
             IN  IF bad # {}
                 THEN Raised(EntryResult(loaded.scores,
                                 gs[CHOOSE i \in bad : \A j \in bad : i <= j]).exc)
                 ELSE Returned(BuildResult(loaded.scores, gs))

----------------------------------------------------------------------------
(* BuzzScorer.score_games and BuzzScorer._call_claude                      *)

\* BuzzScorer.available
Available == api_key # "none"

NoResponse ==
    [id |-> 0, stop_reason |-> "none", content |-> <<>>, payload |-> NoEntries]

Twenty == [g \in GameIds |-> Obj([k |-> "int", v |-> 20], TRUE, ReasoningOf(g))]

\* A reply paused after web searches holds search blocks or a first answer.
PausedContents == {<<ToolBlock>>, <<TextBlock(Json)>>}

\* What client.messages.create can return as its id-th response.
Responses(id) ==
    {[id |-> id, stop_reason |-> "end_turn", content |-> c, payload |-> p] :
        <<c, p>> \in {cp \in Contents \X Payloads : cp[2] \in PayloadsOf(cp[1])}}
    \cup
    {[id |-> id, stop_reason |-> "pause_turn", content |-> c, payload |-> p] :
        <<c, p>> \in {cp \in PausedContents \X {NoEntries, Twenty} :
                        cp[2] \in PayloadsOf(cp[1])}}

ContinueWhilePausedUnbounded(resp, n) == resp.stop_reason = "pause_turn"

ContinueAlways(resp, n) == n < MaxContinuations

\* Lines 154-156: the loop body sends a request in iteration n (0-based)
\* when the latest response is paused.
ShouldContinue(resp, n) ==
    n < MaxContinuations /\ resp.stop_reason = "pause_turn"

ExceptHandlerEmpty(gs) == <<>>

\* Lines 99-101: what score_games returns when _call_claude raised.
ExceptHandler(gs) == Zeros(gs)

BuzzInit ==
    /\ api_key \in {"none", "key"}
    /\ pc = "idle"
    /\ games = <<>>
    /\ records = <<>>
    /\ calls = 0
    /\ requests = 0
    /\ continuations = 0
    /\ response = NoResponse
    /\ parsed = 0
    /\ parse_result = NotParsed
    /\ path = "none"
    /\ raised = "none"
    /\ result = <<>>

ScoreGamesNoEmptyCheck ==
    /\ pc = "idle"
    /\ \E gs \in Batches :
        /\ games' = gs
        /\ records' = RecordsOf(gs)
        /\ IF ~Available
           THEN /\ result' = Zeros(gs)
                /\ path' = "no_key"
                /\ pc' = "done"
                /\ calls' = calls
           ELSE /\ pc' = "call"
                /\ calls' = calls + 1
                /\ UNCHANGED <<result, path>>
    /\ UNCHANGED <<api_key, requests, continuations, response, parsed,
                   parse_result, raised, leadVars, adapterVars, restVars>>

\* Lines 90-98: score_games up to its call of _call_claude.
ScoreGames ==
    /\ pc = "idle"
    /\ \E gs \in Batches :
        /\ games' = gs
        /\ records' = RecordsOf(gs)
        /\ IF ~Available
           THEN /\ result' = Zeros(gs)
                /\ path' = "no_key"
                /\ pc' = "done"
                /\ calls' = calls
           ELSE IF gs = <<>>
           THEN /\ result' = <<>>
                /\ path' = "empty"
                /\ pc' = "done"
                /\ calls' = calls
           ELSE /\ pc' = "call"
                /\ calls' = calls + 1
                /\ UNCHANGED <<result, path>>
    /\ UNCHANGED <<api_key, requests, continuations, response, parsed,
                   parse_result, raised, leadVars, adapterVars, restVars>>

\* Lines 146-151: the initial request returns a response.
CreateReturns ==
    /\ pc = "call"
    /\ requests' = requests + 1
    /\ \E r \in Responses(requests + 1) : response' = r
    /\ pc' = "loop"
    /\ UNCHANGED <<api_key, games, records, calls, continuations, parsed, parse_result,
                   path, raised, result, leadVars, adapterVars, restVars>>

\* Lines 146-151 and 99-101: the initial request raises; score_games catches.
CreateRaises ==
    /\ pc = "call"
    /\ requests' = requests + 1
    /\ raised' = "APIError"
    /\ result' = ExceptHandler(games)
    /\ path' = "exception"
    /\ pc' = "done"
    /\ UNCHANGED <<api_key, games, records, calls, continuations, response, parsed,
                   parse_result, leadVars, adapterVars, restVars>>

\* Lines 154-167: one iteration of the loop that sends a continuation.
ContinueReturns ==
    /\ pc = "loop"
    /\ ShouldContinue(response, continuations)
    /\ requests' = requests + 1
    /\ continuations' = continuations + 1
    /\ \E r \in Responses(requests + 1) : response' = r
    /\ UNCHANGED <<api_key, pc, games, records, calls, parsed, parse_result, path,
                   raised, result, leadVars, adapterVars, restVars>>

\* Lines 162-167 and 99-101: the continuation raises; score_games catches.
ContinueRaises ==
    /\ pc = "loop"
    /\ ShouldContinue(response, continuations)
    /\ requests' = requests + 1
    /\ continuations' = continuations + 1
    /\ raised' = "APIError"
    /\ result' = ExceptHandler(games)
    /\ path' = "exception"
    /\ pc' = "done"
    /\ UNCHANGED <<api_key, games, records, calls, response, parsed, parse_result,
                   leadVars, adapterVars, restVars>>

ParseAndReturnInPlace ==
    /\ pc = "loop"
    /\ ~ShouldContinue(response, continuations)
    /\ parsed' = response.id
    /\ parse_result' = ParseResponse(response.content, response.payload, games)
    /\ IF parse_result'.kind = "return"
       THEN /\ result' = parse_result'.map
            /\ records' = [i \in 1..Len(records) |->
                              records[i] @@ [buzz |-> result'[games[i]]]]
            /\ path' = "parsed"
            /\ raised' = raised
       ELSE /\ result' = ExceptHandler(games)
            /\ records' = records
            /\ path' = "exception"
            /\ raised' = parse_result'.exc
    /\ pc' = "done"
    /\ UNCHANGED <<api_key, games, calls, requests, continuations, response,
                   leadVars, adapterVars, restVars>>

\* Lines 154-156, 169 and 97-101: the loop ends, the latest response is
\* parsed, and score_games returns the mapping or catches what was raised.
ParseAndReturn ==
    /\ pc = "loop"
    /\ ~ShouldContinue(response, continuations)
    /\ parsed' = response.id
    /\ parse_result' = ParseResponse(response.content, response.payload, games)
    /\ IF parse_result'.kind = "return"
       THEN /\ result' = parse_result'.map
            /\ path' = "parsed"
            /\ raised' = raised
       ELSE /\ result' = ExceptHandler(games)
            /\ path' = "exception"
            /\ raised' = parse_result'.exc
    /\ pc' = "done"
    /\ UNCHANGED <<api_key, games, records, calls, requests, continuations, response,
                   leadVars, adapterVars, restVars>>

LeadIdle == est_home_score = 0 /\ est_visitor_score = 0 /\ estimate = -1
AdapterIdle == adapter = "none" /\ upstream = [http |-> "none"] /\ daily = <<>>

WindowIdle ==
    /\ win_adapter = "none"
    /\ win_pc = "idle"
    /\ win_days = 0
    /\ win_current = 0
    /\ win_games = <<>>
    /\ win_answers = <<>>
    /\ win_log = <<>>
HttpIdle ==
    /\ http_pc = "idle"
    /\ http_route = "none"
    /\ http_args = <<>>
    /\ http_window = [up |-> "none"]
    /\ rec_calls = <<>>
    /\ http_status = 0
    /\ http_body = <<>>
LcIdle == lc_actions = <<>> /\ lc_result = -1
DetIdle ==
    /\ det_pc = "idle"
    /\ det_upstream = <<>>
    /\ det_details = <<>>
    /\ det_result = <<>>
NoCache == [k |-> "none"]
RefIdle ==
    /\ top5_cache = NoCache
    /\ stars_cache = NoCache
    /\ ref_requests = [top5 |-> 0, stars |-> 0]
    /\ ref_returned = [op |-> "none"]
    /\ ref_accesses = 0
CacheIdle ==
    /\ request_cache = <<>>
    /\ cache_now = 0
    /\ cache_calls = 0
    /\ cache_last = [key |-> 0]
    /\ fetch_count = 0
NotCalled == [kind |-> "none"]
KeyIdle ==
    /\ ctor_arg = "unused"
    /\ key_run = [kind |-> "none"]
    /\ key_env = [set |-> FALSE]
    /\ key_result = NotCalled
RankIdle ==
    /\ rank_pc = 0
    /\ rank_fetched = <<>>
    /\ rank_refetched = <<>>
    /\ rank_first = <<>>
    /\ rank_second = <<>>
\* The request threads of the web application.
Threads == {1, 2}
ConcIdle ==
    /\ th_pc = [t \in Threads |-> "idle"]
    /\ th_key = [t \in Threads |-> 0]
    /\ th_data = [t \in Threads |-> 0]
    /\ th_sorted = [t \in Threads |-> <<>>]
    /\ th_result = [t \in Threads |-> NotCalled]
    /\ th_late = [t \in Threads |-> FALSE]
    /\ sync_pc = "idle"
    /\ sync_token = "None"
    /\ sync_header = "None"
    /\ sync_status = 0
    /\ sync_ran = 0
    /\ db_version = 0
MoreIdle == KeyIdle /\ RankIdle /\ ConcIdle
RestIdle ==
    WindowIdle /\ HttpIdle /\ LcIdle /\ DetIdle /\ RefIdle /\ CacheIdle
        /\ MoreIdle

Init == BuzzInit /\ LeadIdle /\ AdapterIdle /\ RestIdle

Next ==
    \/ ScoreGames
    \/ CreateReturns
    \/ CreateRaises
    \/ ContinueReturns
    \/ ContinueRaises
    \/ ParseAndReturn

Spec == Init /\ [][Next]_vars

----------------------------------------------------------------------------
(* Properties of BuzzScorer, checked under Spec.                           *)

PlainReply == response.content = <<TextBlock(Json)>>

InRange(r) == r.score.k = "num" /\ 0 <= r.score.v /\ r.score.v <= MAX_BUZZ_SCORE

\* C1: score_games never lets a provider failure out: with no API key, or
\* when _call_claude raised (a request failed, or parsing the reply raised),
\* it returns score 0 and reasoning "" for every game of the batch.
C1_DegradesToZeros ==
    /\ raised # "none" => pc = "done"
    /\ (pc = "done" /\ (api_key = "none" \/ raised # "none")) =>
            /\ DOMAIN result = Ids(games)
            /\ \A g \in Ids(games) : result[g] = ZeroResult

C1_Witness ==
    /\ pc = "done"
    /\ raised = "ValueError"
    /\ Len(games) = 2
    /\ \A g \in Ids(games) : result[g] = ZeroResult

\* C2: every score score_games returns is a number in [0, MAX_BUZZ_SCORE],
\* and in a mapping _parse_response returned a numeric score above 40 has
\* become 40, one below 0 has become 0, one in between is unchanged.
C2_Clamped ==
    /\ pc = "done" => \A g \in DOMAIN result : InRange(result[g])
    /\ parse_result.kind = "return" =>
            \A g \in DOMAIN parse_result.map : InRange(parse_result.map[g])
    /\ (parse_result.kind = "return" /\ PlainReply) =>
            \A g \in Ids(games) :
                LET e == response.payload[g]
                IN  /\ (e.t = "obj" /\ e.score.k = "int") =>
                        parse_result.map[g].score =
                            Num(IF e.score.v > MAX_BUZZ_SCORE THEN MAX_BUZZ_SCORE
                                ELSE IF e.score.v < 0 THEN 0
                                ELSE e.score.v)
                    /\ (e.t = "obj" /\ e.score = PosInf) =>
                        parse_result.map[g].score = Num(MAX_BUZZ_SCORE)
                    /\ (e.t = "obj" /\ e.score = NegInf) =>
                        parse_result.map[g].score = Num(0)

C2_Witness ==
    /\ pc = "done"
    /\ parse_result.kind = "return"
    /\ PlainReply
    /\ games = <<"g1", "g2">>
    /\ response.payload["g1"].t = "obj"
    /\ response.payload["g1"].score = [k |-> "int", v |-> 41]
    /\ result["g1"].score = Num(40)
    /\ response.payload["g2"].t = "obj"
    /\ response.payload["g2"].score = [k |-> "int", v |-> -5]
    /\ result["g2"].score = Num(0)

\* C3: on every path the keys of the mapping score_games returns are exactly
\* the game_ids of the batch: an id the reply omits gets score 0 and
\* reasoning "", an id outside the batch is dropped, the empty batch gives
\* the empty mapping.
C3_KeysAreBatchIds ==
    pc = "done" =>
        /\ DOMAIN result = Ids(games)
        /\ \A g \in Ids(games) :
                response.payload[g] = Absent => result[g] = ZeroResult
        /\ games = <<>> => result = <<>>

C3_Witness ==
    /\ pc = "done"
    /\ path = "parsed"
    /\ PlainReply
    /\ games = <<"g1">>
    /\ response.payload["g1"] = Absent
    /\ response.payload["g2"] # Absent
    /\ DOMAIN result = {"g1"}
    /\ result["g1"] = ZeroResult

C4_Numeric(e) == e.t = "obj" /\ e.score.k = "int"

C4_Malformed(e) == e.t = "notobj" \/ (e.t = "obj" /\ e.score.k \in {"str", "big"})

\* C4: in _parse_response each game's result depends only on its own entry:
\* a score that is not a number (or an entry that is not an object) gives
\* score 0 for that game, and the other games of the batch keep their own
\* clamped scores and reasoning.  Stated on the mapping score_games returns.
C4_PerGameIsolation ==
    (pc = "done" /\ parsed # 0 /\ PlainReply) =>
        \A g \in Ids(games) :
            LET e == response.payload[g]
            IN  /\ C4_Malformed(e) => result[g].score = Num(0)
                /\ C4_Numeric(e) =>
                        result[g] =
                            [score |-> Num(IF e.score.v > MAX_BUZZ_SCORE
                                           THEN MAX_BUZZ_SCORE
                                           ELSE IF e.score.v < 0 THEN 0
                                           ELSE e.score.v),
                             reasoning |-> IF e.hasReasoning THEN e.reasoning
                                           ELSE ""]

HasJsonObject(t) == \E i \in 1..Len(t) : SubSeq(t, i, i + 2) = Json

\* C5: _parse_response recovers the JSON object from the last text block
\* even when prose or a code fence surrounds it (the fenced content, else
\* the first well-formed object of the text); without any object, or without
\* text, every game gets score 0.
C5_RecoversJson ==
    (pc = "done" /\ parsed # 0 /\ response.payload = Twenty) =>
        \A t \in Texts :
            response.content = <<TextBlock(t)>> =>
                \A g \in Ids(games) :
                    result[g].score = IF HasJsonObject(t) THEN Num(20) ELSE Num(0)

\* C6: one initial request, then a continuation only while the latest
\* response is paused and at most MaxContinuations times; the loop stops at
\* the first response that is not paused, every iteration that stays in the
\* loop counts towards the bound (so the loop ends), and the response parsed
\* is the last one received.
C6_PauseLoopInv ==
    /\ continuations <= MaxContinuations
    /\ requests <= MaxContinuations + 1
    /\ pc = "loop" => requests = continuations + 1 /\ response.id = requests
    /\ parsed # 0 =>
            /\ parsed = requests
            /\ response.id = parsed
            /\ response.stop_reason # "pause_turn"
                    \/ continuations = MaxContinuations

C6_PauseLoopStep ==
    /\ (requests' # requests) => requests' = requests + 1
    /\ (requests' # requests /\ requests >= 1) =>
            /\ response.stop_reason = "pause_turn"
            /\ continuations' = continuations + 1
    /\ (pc = "loop" /\ pc' = "loop") => continuations' = continuations + 1
    /\ (pc = "loop" /\ response.stop_reason # "pause_turn") =>
            pc' = "done" /\ requests' = requests

C6_PauseLoop == [](C6_PauseLoopInv) /\ [][C6_PauseLoopStep]_vars

C6_Witness ==
    /\ pc = "done"
    /\ requests = MaxContinuations + 1
    /\ parsed = requests
    /\ response.stop_reason = "pause_turn"
    /\ path = "parsed"

\* C7: the provider is contacted only with an API key and a non-empty batch,
\* and then _call_claude is invoked exactly once for the whole batch,
\* whatever the number of games.
C7_OneCallPerBatch ==
    /\ calls <= 1
    /\ requests > 0 => calls = 1
    /\ calls = 1 => Available /\ games # <<>>
    /\ pc = "done" => calls = IF Available /\ games # <<>> THEN 1 ELSE 0

C7_Witness ==
    /\ pc = "done"
    /\ Len(games) = 2
    /\ calls = 1
    /\ requests >= 1

----------------------------------------------------------------------------
(* BallDontLieClient._estimate_lead_changes, specification LeadSpec.       *)

Abs(n) == IF n < 0 THEN -n ELSE n

EstimateLeadChangesStrict(home, visitor) ==
    LET margin == Abs(home - visitor)
    IN  IF margin < 3 THEN 15
        ELSE IF margin < 5 THEN 10
        ELSE IF margin < 10 THEN 5
        ELSE IF margin < 15 THEN 2
        ELSE 0

\* Lines 131-143.
EstimateLeadChanges(home, visitor) ==
    LET margin == Abs(home - visitor)
    IN  IF margin <= 3 THEN 15
        ELSE IF margin <= 5 THEN 10
        ELSE IF margin <= 10 THEN 5
        ELSE IF margin <= 15 THEN 2
        ELSE 0

BuzzIdle ==
    /\ api_key = "none"
    /\ pc = "idle"
    /\ games = <<>>
    /\ records = <<>>
    /\ calls = 0
    /\ requests = 0
    /\ continuations = 0
    /\ response = NoResponse
    /\ parsed = 0
    /\ parse_result = NotParsed
    /\ path = "none"
    /\ raised = "none"
    /\ result = <<>>

LeadInit ==
    /\ est_home_score \in 0..MaxScore
    /\ est_visitor_score \in 0..MaxScore
    /\ estimate = -1
    /\ BuzzIdle
    /\ AdapterIdle
    /\ RestIdle

\* A call of _estimate_lead_changes(est_home_score, est_visitor_score).
CallEstimate ==
    /\ estimate = -1
    /\ estimate' = EstimateLeadChanges(est_home_score, est_visitor_score)
    /\ UNCHANGED <<est_home_score, est_visitor_score, buzzVars, adapterVars, restVars>>

LeadNext == CallEstimate

LeadSpec == LeadInit /\ [][LeadNext]_vars

\* C8: the estimate is 15 for a margin of at most 3, 10 for 4 or 5, 5 for 6
\* to 10, 2 for 11 to 15 and 0 above 15, the boundaries 3, 5, 10 and 15
\* falling in the closer bucket; it is the same whichever team won.
C8_EstimateBuckets ==
    estimate # -1 =>
        LET margin == IF est_home_score >= est_visitor_score
                      THEN est_home_score - est_visitor_score
                      ELSE est_visitor_score - est_home_score
        IN  /\ margin \in 0..3 => estimate = 15
            /\ margin \in 4..5 => estimate = 10
            /\ margin \in 6..10 => estimate = 5
            /\ margin \in 11..15 => estimate = 2
            /\ margin > 15 => estimate = 0
            /\ estimate = EstimateLeadChanges(est_visitor_score, est_home_score)

C8_Witness ==
    /\ estimate = 2
    /\ est_visitor_score - est_home_score = 15

----------------------------------------------------------------------------
(* The per-date fetch of the adapters, specification AdapterSpec.          *)

Date == "2024-01-15"

\* The value None; dict.get(key) gives it for a key the dict lacks.
None == "None"

\* dict.get(key, default) on a record that may lack the key.
Get(d, key, default) == IF key \in DOMAIN d THEN d[key] ELSE default

BackupStatuses == {"Final", "In Progress", "7:30 pm ET"}
UpstreamScores == {100, 103}

\* One game of the BallDontLie answer, the i-th of its date: the status and
\* either score may be missing. It carries a total and a margin of its own
\* that are unrelated to its two scores.
BackupGames(i) ==
    LET base == [id |-> 1000 + i,
                 total_points |-> 999,
                 final_margin |-> 998,
                 home_team |-> [full_name |-> "Los Angeles Lakers",
                                abbreviation |-> "LAL"],
                 visitor_team |-> [full_name |-> "Boston Celtics",
                                   abbreviation |-> "BOS"]]
        withStatus == {base} \cup {base @@ [status |-> st] : st \in BackupStatuses}
        withHome == withStatus \cup
                    {g @@ [home_team_score |-> n] :
                        <<g, n>> \in withStatus \X UpstreamScores}
    IN  withHome \cup
        {g @@ [visitor_team_score |-> n] :
            <<g, n>> \in withHome \X (UpstreamScores \cup {118})}

RECURSIVE SeqsOf(_, _)
\* The sequences of length n whose i-th element is drawn from an element of
\* the i-th set produced by gen.
SeqsOf(gen(_), n) ==
    IF n = 0 THEN {<<>>}
    ELSE {Append(s, g) : <<s, g>> \in SeqsOf(gen, n - 1) \X gen(n)}

\* What session.get followed by raise_for_status and json() can give: an
\* error (status code, timeout, body that is no JSON), a body without the
\* data key, or a body listing games.
BackupUpstreams ==
    {[http |-> "error"], [http |-> "ok", body |-> [error |-> "API error"]]}
        \cup {[http |-> "ok", body |-> [data |-> d]] :
                d \in UNION {SeqsOf(BackupGames, n) : n \in 0..MaxDayGames}}

CompletedUnlessInProgress(game) == Get(game, "status", None) # "In Progress"

\* Line 81: only games whose status is 'Final'.
Completed(game) == Get(game, "status", None) = "Final"

BackupRecordSignedMargin(game, game_date) ==
    LET home_team == Get(game, "home_team", <<>>)
        visitor_team == Get(game, "visitor_team", <<>>)
        home_score == Get(game, "home_team_score", 0)
        visitor_score == Get(game, "visitor_team_score", 0)
    IN  [game_id |-> ToString(game.id),
         game_date |-> game_date,
         home_team |-> [name |-> Get(home_team, "full_name", None),
                        abbr |-> Get(home_team, "abbreviation", None),
                        score |-> home_score],
         away_team |-> [name |-> Get(visitor_team, "full_name", None),
                        abbr |-> Get(visitor_team, "abbreviation", None),
                        score |-> visitor_score],
         total_points |-> home_score + visitor_score,
         final_margin |-> home_score - visitor_score,
         lead_changes |-> EstimateLeadChanges(home_score, visitor_score),
         star_players_count |-> 0]

\* Lines 84-109: game_info.
BackupRecord(game, game_date) ==
    LET home_team == Get(game, "home_team", <<>>)
        visitor_team == Get(game, "visitor_team", <<>>)
        home_score == Get(game, "home_team_score", 0)
        visitor_score == Get(game, "visitor_team_score", 0)
    IN  [game_id |-> ToString(game.id),
         game_date |-> game_date,
         home_team |-> [name |-> Get(home_team, "full_name", None),
                        abbr |-> Get(home_team, "abbreviation", None),
                        score |-> home_score],
         away_team |-> [name |-> Get(visitor_team, "full_name", None),
                        abbr |-> Get(visitor_team, "abbreviation", None),
                        score |-> visitor_score],
         total_points |-> home_score + visitor_score,
         final_margin |-> Abs(home_score - visitor_score),
         lead_changes |-> EstimateLeadChanges(home_score, visitor_score),
         star_players_count |-> 0]

\* Lines 78-111: the loop over data.get('data', []).
RECURSIVE BackupLoop(_, _, _)
BackupLoop(data, game_date, acc) ==
    IF data = <<>> THEN acc
    ELSE BackupLoop(Tail(data), game_date,
                    IF Completed(Head(data))
                    THEN Append(acc, BackupRecord(Head(data), game_date))
                    ELSE acc)

\* Lines 66-117: _get_games_by_date; any exception gives the empty list.
GetGamesByDate(up, game_date) ==
    IF up.http = "error" THEN <<>>
    ELSE BackupLoop(Get(up.body, "data", <<>>), game_date, <<>>)

\* One game of the primary adapter's scoreboard answer, the i-th of its date.
PrimaryGames(i) ==
    LET base == {[gameId |-> ToString(2000 + i),
                  gameStatus |-> st,
                  homeTeam |-> home,
                  awayTeam |-> [teamName |-> "Celtics", teamTricode |-> "BOS",
                                score |-> a]] :
                    <<st, home, a>> \in
                        {1, 2, 3}
                        \X ({[teamName |-> "Lakers", teamTricode |-> "LAL"]} \cup
                            {[teamName |-> "Lakers", teamTricode |-> "LAL",
                              score |-> h] : h \in UpstreamScores})
                        \X {100, 118}}
    IN  base

PrimaryUpstreams ==
    {[http |-> "error"]}
        \cup {[http |-> "ok", body |-> [scoreboard |-> [games |-> d]]] :
                d \in UNION {SeqsOf(PrimaryGames, n) : n \in 0..MaxDayGames}}

\* The record the primary adapter builds for one completed game; its detail
\* fields (lead_changes, star_players_count) come from _get_game_details.
PrimaryRecord(game, game_date) ==
    LET home_score == Get(game.homeTeam, "score", 0)
        away_score == Get(game.awayTeam, "score", 0)
    IN  [game_id |-> game.gameId,
         game_date |-> game_date,
         home_team |-> [name |-> game.homeTeam.teamName,
                        abbr |-> game.homeTeam.teamTricode,
                        score |-> home_score],
         away_team |-> [name |-> game.awayTeam.teamName,
                        abbr |-> game.awayTeam.teamTricode,
                        score |-> away_score],
         total_points |-> home_score + away_score,
         final_margin |-> Abs(home_score - away_score)]

RECURSIVE PrimaryLoop(_, _, _)
PrimaryLoop(data, game_date, acc) ==
    IF data = <<>> THEN acc
    ELSE PrimaryLoop(Tail(data), game_date,
                     IF Head(data).gameStatus = 3
                     THEN Append(acc, PrimaryRecord(Head(data), game_date))
                     ELSE acc)

\* NBAClient._get_scoreboard: the completed games (gameStatus 3) of the
\* date, the empty list on an error.
GetScoreboard(up, game_date) ==
    IF up.http = "error" THEN <<>>
    ELSE PrimaryLoop(up.body.scoreboard.games, game_date, <<>>)

AdapterInit == AdapterIdle /\ BuzzIdle /\ LeadIdle /\ RestIdle

\* BallDontLieClient._get_games_by_date(Date) against one upstream answer.
FetchBackup ==
    /\ adapter = "none"
    /\ \E up \in BackupUpstreams :
        /\ upstream' = up
        /\ daily' = GetGamesByDate(up, Date)
    /\ adapter' = "backup"
    /\ UNCHANGED <<buzzVars, leadVars, restVars>>

\* NBAClient._get_scoreboard(Date) against one upstream answer.
FetchPrimary ==
    /\ adapter = "none"
    /\ \E up \in PrimaryUpstreams :
        /\ upstream' = up
        /\ daily' = GetScoreboard(up, Date)
    /\ adapter' = "primary"
    /\ UNCHANGED <<buzzVars, leadVars, restVars>>

AdapterNext == FetchBackup \/ FetchPrimary

AdapterSpec == AdapterInit /\ [][AdapterNext]_vars

\* The games the upstream answer lists, as <<id, completed, home, away>>
\* with a missing score read as 0.
UpstreamListed ==
    IF adapter = "backup" /\ upstream.http = "ok" /\ "data" \in DOMAIN upstream.body
    THEN [i \in 1..Len(upstream.body.data) |->
            LET u == upstream.body.data[i]
            IN  [id |-> ToString(u.id),
                 completed |-> "status" \in DOMAIN u /\ u.status = "Final",
                 home |-> IF "home_team_score" \in DOMAIN u
                          THEN u.home_team_score ELSE 0,
                 away |-> IF "visitor_team_score" \in DOMAIN u
                          THEN u.visitor_team_score ELSE 0]]
    ELSE IF adapter = "primary" /\ upstream.http = "ok"
    THEN [i \in 1..Len(upstream.body.scoreboard.games) |->
            LET u == upstream.body.scoreboard.games[i]
            IN  [id |-> u.gameId,
                 completed |-> u.gameStatus = 3,
                 home |-> IF "score" \in DOMAIN u.homeTeam
                          THEN u.homeTeam.score ELSE 0,
                 away |-> IF "score" \in DOMAIN u.awayTeam
                          THEN u.awayTeam.score ELSE 0]]
    ELSE <<>>

\* C9: in every record an adapter returns, total_points is the sum and
\* final_margin the absolute difference of the two team scores of the
\* upstream game with that id, a score missing upstream counting as 0.
C9_TotalAndMargin ==
    \A i \in 1..Len(daily) :
        LET r == daily[i]
        IN  /\ r.total_points = r.home_team.score + r.away_team.score
            /\ r.final_margin >= 0
            /\ r.final_margin \in {r.home_team.score - r.away_team.score,
                                   r.away_team.score - r.home_team.score}
            /\ \E j \in 1..Len(UpstreamListed) :
                    /\ UpstreamListed[j].id = r.game_id
                    /\ r.home_team.score = UpstreamListed[j].home
                    /\ r.away_team.score = UpstreamListed[j].away
                    /\ r.total_points =
                            UpstreamListed[j].home + UpstreamListed[j].away

C9_Witness ==
    /\ adapter = "backup"
    /\ Len(daily) = 2
    /\ daily[1].home_team.score = 100
    /\ daily[1].away_team.score = 103
    /\ daily[1].total_points = 203
    /\ daily[1].final_margin = 3
    /\ upstream.body.data[1].total_points # daily[1].total_points
    /\ upstream.body.data[1].final_margin # daily[1].final_margin
    /\ "home_team_score" \notin DOMAIN upstream.body.data[2]
    /\ daily[2].total_points = 118
    /\ daily[2].final_margin = 118

\* C10: an adapter returns a game only if its upstream status is completed
\* ('Final', gameStatus 3); the completed games of the day are all kept, in
\* the upstream order; a day without a completed game, and a failed request,
\* give the empty list.
C10_OnlyCompleted ==
    adapter # "none" =>
        LET done == {j \in 1..Len(UpstreamListed) : UpstreamListed[j].completed}
        IN  /\ Len(daily) = Cardinality(done)
            /\ \A i \in 1..Len(daily) :
                    \E j \in done : UpstreamListed[j].id = daily[i].game_id
            /\ \A j \in done :
                    \E i \in 1..Len(daily) : daily[i].game_id = UpstreamListed[j].id
            /\ \A i, k \in 1..Len(daily) :
                    i < k =>
                        \E j, l \in done :
                            /\ j < l
                            /\ UpstreamListed[j].id = daily[i].game_id
                            /\ UpstreamListed[l].id = daily[k].game_id
            /\ done = {} => daily = <<>>

C10_Witness ==
    /\ adapter = "backup"
    /\ upstream.http = "ok"
    /\ "data" \in DOMAIN upstream.body
    /\ Len(upstream.body.data) = 2
    /\ "status" \in DOMAIN upstream.body.data[1]
    /\ upstream.body.data[1].status = "In Progress"
    /\ "status" \in DOMAIN upstream.body.data[2]
    /\ upstream.body.data[2].status = "Final"
    /\ Len(daily) = 1
    /\ daily[1].game_id = "1002"

----------------------------------------------------------------------------
(* get_games_last_n_days, specification WindowSpec.                        *)

\* datetime.now() falls on this day of January 2024.
Today == 15

\* strftime('%Y-%m-%d') of a day of January 2024.
StrfTime(day) ==
    "2024-01-" \o (IF day < 10 THEN "0" ELSE "") \o ToString(day)

\* Line 75: timeout=10 (seconds).
REQUEST_TIMEOUT == 10
\* Line 52: time.sleep(0.6), in milliseconds.
RATE_LIMIT_SLEEP_MS == 600

\* A game of the BallDontLie answer with the given id, status and scores.
WinGame(id, status, hs, vs) ==
    [id |-> id, status |-> status,
     home_team |-> [full_name |-> "Los Angeles Lakers", abbreviation |-> "LAL"],
     visitor_team |-> [full_name |-> "Boston Celtics", abbreviation |-> "BOS"],
     home_team_score |-> hs, visitor_team_score |-> vs]

\* The same game without its home_team object.
WinGameNoHome(id, status, hs, vs) ==
    [id |-> id, status |-> status,
     visitor_team |-> [full_name |-> "Boston Celtics", abbreviation |-> "BOS"],
     home_team_score |-> hs, visitor_team_score |-> vs]

\* The same game with one team on both sides.
WinGameSameTeam(id, status, hs, vs) ==
    [id |-> id, status |-> status,
     home_team |-> [full_name |-> "Boston Celtics", abbreviation |-> "BOS"],
     visitor_team |-> [full_name |-> "Boston Celtics", abbreviation |-> "BOS"],
     home_team_score |-> hs, visitor_team_score |-> vs]

\* The answers the BallDontLie request of one date can get.
BackupAnswers ==
    {[http |-> "error"],
     [http |-> "ok", body |-> [error |-> "API error"]],
     [http |-> "ok", body |-> [data |-> <<>>]],
     [http |-> "ok", body |-> [data |-> <<WinGame(1, "Final", 100, 103)>>]],
     [http |-> "ok", body |-> [data |-> <<WinGame(1, "In Progress", 50, 48),
                                          WinGame(2, "Final", 103, 118)>>]],
     [http |-> "ok", body |-> [data |-> <<WinGameNoHome(1, "Final", 100, 103)>>]],
     [http |-> "ok", body |-> [data |-> <<WinGameSameTeam(1, "Final", 100, 103)>>]]}

\* A game of the primary scoreboard with the given id, status and scores.
WinScoreboardGame(id, status, hs, as) ==
    [gameId |-> id, gameStatus |-> status,
     homeTeam |-> [teamName |-> "Lakers", teamTricode |-> "LAL", score |-> hs],
     awayTeam |-> [teamName |-> "Celtics", teamTricode |-> "BOS", score |-> as]]

\* The answers the scoreboard request of one date can get.
PrimaryAnswers ==
    {[http |-> "error"],
     [http |-> "ok", body |-> [scoreboard |-> [games |-> <<>>]]],
     [http |-> "ok", body |-> [scoreboard |-> [games |->
        <<WinScoreboardGame("001", 3, 110, 108)>>]]],
     [http |-> "ok", body |-> [scoreboard |-> [games |->
        <<WinScoreboardGame("002", 2, 50, 48),
          WinScoreboardGame("003", 3, 95, 100)>>]]]}

Answers(a) == IF a = "backup" THEN BackupAnswers ELSE PrimaryAnswers

\* The per-date fetch of the adapter a.
PerDateFetch(a, up, date_str) ==
    IF a = "backup" THEN GetGamesByDate(up, date_str)
    ELSE GetScoreboard(up, date_str)

ExtendUnlessEmpty(list, daily_games) ==
    IF daily_games = <<>> THEN <<>> ELSE list \o daily_games

\* Line 50: games.extend(daily_games).
Extend(list, daily_games) == list \o daily_games

\* Line 75: the request of one date, with its timeout. The requests of the
\* primary adapter are not traced.
Requested(a, date_str) ==
    IF a = "backup"
    THEN <<[ev |-> "get", date |-> date_str, timeout |-> REQUEST_TIMEOUT]>>
    ELSE <<>>

SleepIfGames(a, daily_games) ==
    IF a = "backup" /\ daily_games # <<>>
    THEN <<[ev |-> "sleep", ms |-> RATE_LIMIT_SLEEP_MS]>>
    ELSE <<>>

\* Line 52: the sleep that ends every iteration of the backup adapter's loop.
SleepAfter(a, daily_games) ==
    IF a = "backup"
    THEN <<[ev |-> "sleep", ms |-> RATE_LIMIT_SLEEP_MS]>>
    ELSE <<>>

InWindowExclusive(current_date, end_date) == current_date < end_date

\* Line 47: the loop condition current_date <= end_date.
InWindow(current_date, end_date) == current_date <= end_date

OldIdle == BuzzIdle /\ LeadIdle /\ AdapterIdle

WindowInit == OldIdle /\ RestIdle

\* Lines 41-45: the call with its argument days; current_date = start_date.
CallWindow ==
    /\ win_pc = "idle"
    /\ \E a \in {"backup", "primary"}, d \in -2..MaxDays :
        /\ win_adapter' = a
        /\ win_days' = d
        /\ win_current' = Today - d
    /\ win_games' = <<>>
    /\ win_pc' = "loop"
    /\ UNCHANGED <<win_answers, win_log, windowOthers>>

\* Lines 47-52: one iteration of the loop over the dates.
WindowIteration ==
    /\ win_pc = "loop"
    /\ InWindow(win_current, Today)
    /\ \E up \in Answers(win_adapter) :
        LET date_str == StrfTime(win_current)
            daily_games == PerDateFetch(win_adapter, up, date_str)
        IN  /\ win_answers' = Append(win_answers, up)
            /\ win_games' = Extend(win_games, daily_games)
            /\ win_log' = win_log \o Requested(win_adapter, date_str)
                                    \o SleepAfter(win_adapter, daily_games)
    /\ win_current' = win_current + 1
    /\ UNCHANGED <<win_adapter, win_pc, win_days, windowOthers>>

\* Line 54: return games.
WindowReturn ==
    /\ win_pc = "loop"
    /\ ~InWindow(win_current, Today)
    /\ win_pc' = "done"
    /\ UNCHANGED <<win_adapter, win_days, win_current, win_games, win_answers,
                   win_log, windowOthers>>

WindowNext == CallWindow \/ WindowIteration \/ WindowReturn

WindowSpec == WindowInit /\ [][WindowNext]_vars

\* The loop is sequential code whose request has a timeout and whose sleep
\* is finite: an iteration that can run does run, and so does the return.
WindowFairSpec ==
    WindowSpec /\ WF_vars(WindowIteration) /\ WF_vars(WindowReturn)

\* C11: a window of the backup adapter whose every upstream request failed
\* ends in an outcome that differs from the outcome of a window without
\* completed games, which is the empty list returned normally.
C11_FailureSurfaced ==
    (/\ win_pc = "done"
     /\ win_adapter = "backup"
     /\ win_answers # <<>>
     /\ \A i \in 1..Len(win_answers) : win_answers[i].http = "error")
        => win_games # <<>>

\* The <<game_id, game_date>> pairs of the completed games an answer lists
\* for a date, none for a failed request or an unusable body.
ListedCompleted(a, up, date_str) ==
    IF up.http # "ok" THEN <<>>
    ELSE IF a = "backup"
    THEN IF "data" \notin DOMAIN up.body THEN <<>>
         ELSE LET d == up.body.data
                  done == SelectSeq(d, LAMBDA u : u.status = "Final")
              IN  [i \in 1..Len(done) |-> <<ToString(done[i].id), date_str>>]
    ELSE LET d == up.body.scoreboard.games
             done == SelectSeq(d, LAMBDA u : u.gameStatus = 3)
         IN  [i \in 1..Len(done) |-> <<done[i].gameId, date_str>>]

RECURSIVE ListedUpTo(_)
ListedUpTo(n) ==
    IF n = 0 THEN <<>>
    ELSE ListedUpTo(n - 1)
            \o ListedCompleted(win_adapter, win_answers[n],
                               StrfTime(Today - win_days + n - 1))

\* C12: a failed request for one date gives the empty list for that date and
\* raises nothing: the loop goes on to the next date, and the returned list
\* holds the completed games of every date whose request succeeded, in order.
C12_FailedDateIsolated ==
    win_pc # "idle" =>
        /\ Len(win_answers) = win_current - (Today - win_days)
        /\ (win_pc = "done" /\ win_days >= 0) =>
                Len(win_answers) = win_days + 1
        /\ [i \in 1..Len(win_games) |->
                <<win_games[i].game_id, win_games[i].game_date>>]
            = ListedUpTo(Len(win_answers))
        /\ \A i \in 1..Len(win_answers) :
                win_answers[i].http = "error" =>
                    \A j \in 1..Len(win_games) :
                        win_games[j].game_date # StrfTime(Today - win_days + i - 1)

C12_Witness ==
    /\ win_pc = "done"
    /\ win_adapter = "backup"
    /\ win_days = 2
    /\ win_answers[1] = [http |-> "ok",
                         body |-> [data |-> <<WinGame(1, "Final", 100, 103)>>]]
    /\ win_answers[2].http = "error"
    /\ win_answers[3] = win_answers[1]
    /\ Len(win_games) = 2
    /\ win_games[1].game_date = "2024-01-13"
    /\ win_games[2].game_date = "2024-01-15"

\* C13: every record the backup adapter returns has total_points >= 0,
\* final_margin >= 0 and two team abbreviations that are non-empty strings
\* and differ.
C13_RecordInvariant ==
    win_adapter = "backup" =>
    \A i \in 1..Len(win_games) :
        LET r == win_games[i]
        IN  /\ r.total_points >= 0
            /\ r.final_margin >= 0
            /\ r.home_team.abbr \notin {None, ""}
            /\ r.away_team.abbr \notin {None, ""}
            /\ r.home_team.abbr # r.away_team.abbr

\* C19: the backup adapter sends its requests one per date in date order,
\* each with the 10 s timeout, and every request, failed or not, is followed
\* by the 0.6 s sleep before the next request.
C19_Paced ==
    win_adapter = "backup" =>
        /\ Len(win_log) = 2 * Len(win_answers)
        /\ \A i \in 1..Len(win_log) :
            IF i % 2 = 1
            THEN /\ win_log[i].ev = "get"
                 /\ win_log[i].timeout = 10
                 /\ win_log[i].date = StrfTime(Today - win_days + (i - 1) \div 2)
            ELSE win_log[i] = [ev |-> "sleep", ms |-> 600]
        /\ \A i \in 1..(Len(win_log) - 1) :
            ~(win_log[i].ev = "get" /\ win_log[i + 1].ev = "get")

C19_Witness ==
    /\ win_adapter = "backup"
    /\ win_pc = "done"
    /\ win_days = 2
    /\ win_answers[2].http = "error"
    /\ Len(win_log) = 6
    /\ win_log[3].ev = "get"
    /\ win_log[4].ev = "sleep"
    /\ win_log[5].ev = "get"

----------------------------------------------------------------------------
(* The HTTP routes /api/best-game and /api/games (interfaces/api_server.py) *)
(* and /api/trmnl (interfaces/web/app.py), specification ApiSpec.          *)

Digits == {"0", "1", "2", "3", "4", "5", "6", "7", "8", "9"}
DigitValue(c) ==
    CASE c = "0" -> 0 [] c = "1" -> 1 [] c = "2" -> 2 [] c = "3" -> 3
      [] c = "4" -> 4 [] c = "5" -> 5 [] c = "6" -> 6 [] c = "7" -> 7
      [] c = "8" -> 8 [] c = "9" -> 9

\* A query value is a string, held as the sequence of its characters.
ArgChars == Digits \cup {"-", " ", "a"}
ArgStrings == UNION {[1..n -> ArgChars] : n \in 0..MaxArgLen}

\* A Python value that is an int, or a str.
IntVal(n) == [k |-> "int", v |-> n]
StrVal(str) == [k |-> "str", v |-> str]

RECURSIVE DigitsValue(_)
DigitsValue(ds) ==
    IF ds = <<>> THEN 0
    ELSE 10 * DigitsValue(SubSeq(ds, 1, Len(ds) - 1)) + DigitValue(ds[Len(ds)])

ValueError == [ok |-> FALSE, exc |-> "ValueError"]

\* str.strip() of a string whose only whitespace is the space.
StripSpaces(str) ==
    LET solid == {i \in 1..Len(str) : str[i] # " "}
    IN  IF solid = {} THEN <<>>
        ELSE SubSeq(str, CHOOSE i \in solid : \A j \in solid : i <= j,
                         CHOOSE i \in solid : \A j \in solid : i >= j)

\* int(x): an int is itself; a str is stripped of surrounding whitespace and
\* read as an optional sign and decimal digits, anything else is a ValueError.
PyInt(x) ==
    IF x.k = "int" THEN [ok |-> TRUE, v |-> x.v]
    ELSE LET t == StripSpaces(x.v)
             neg == t # <<>> /\ Head(t) = "-"
             ds == IF neg THEN Tail(t) ELSE t
         IN  IF ds # <<>> /\ \A i \in 1..Len(ds) : ds[i] \in Digits
             THEN [ok |-> TRUE,
                   v |-> IF neg THEN -DigitsValue(ds) ELSE DigitsValue(ds)]
             ELSE ValueError

TeamArgs == {"lal"}
\* request.args of a request: days and team are each given or not.
Args ==
    {<<>>}
        \cup {[days |-> d] : d \in ArgStrings}
        \cup {[team |-> t] : t \in TeamArgs}
        \cup {[days |-> d, team |-> t] : <<d, t>> \in ArgStrings \X TeamArgs}

\* What the data provider has for the window: it is unavailable, or it has
\* this many completed games.
Windows ==
    {[up |-> "unavailable"]} \cup {[up |-> "ok", games |-> n] : n \in 0..2}

\* The entry of the ranking for the n-th game of the window; scores are in
\* tenths of a point.
Ranked(n) ==
    [game |-> [game_id |-> ToString(n)],
     score |-> 900 - 125 * n,
     breakdown |-> [close_game |-> [margin |-> n, points |-> 255 - 100 * n]]]

\* GameRecommender.get_best_game: the head of the ranking, None for a window
\* without completed games; an unavailable provider raises.
RecommenderGetBestGame(window) ==
    IF window.up = "unavailable" THEN [kind |-> "raise", exc |-> "upstream"]
    ELSE IF window.games = 0 THEN [kind |-> "none"]
    ELSE [kind |-> "result", value |-> Ranked(1)]

\* GameRecommender.get_all_games_ranked: the ranking of the window.
RecommenderGetAllGamesRanked(window) ==
    IF window.up = "unavailable" THEN [kind |-> "raise", exc |-> "upstream"]
    ELSE [kind |-> "list", value |-> [n \in 1..window.games |-> Ranked(n)]]

DaysInRangeFromZero(days) == ~(days < 0 \/ days > 30)

\* api_server.py line 49 (and 88), negated: the days the check lets through.
DaysInRange(days) == ~(days < 1 \/ days > 30)

BestGameResponseUnchecked(outcome) ==
    [status |-> 200,
     body |-> [success |-> TRUE,
               data |-> IF outcome.kind = "result" THEN outcome.value ELSE None]]

\* api_server.py lines 55-63: 404 for a falsy result, the result otherwise.
BestGameResponse(outcome) ==
    IF outcome.kind = "none"
    THEN [status |-> 404, body |-> [error |-> "No games found"]]
    ELSE [status |-> 200, body |-> [success |-> TRUE, data |-> outcome.value]]

\* api_server.py lines 43-67: the handler of GET /api/best-game. It gives
\* the answer and the calls made to the recommender.
ApiGetBestGame(args, window) ==
    LET days == PyInt(IF "days" \in DOMAIN args THEN StrVal(args.days)
                      ELSE IntVal(7))
        favorite_team == Get(args, "team", None)
    IN  IF ~days.ok
        THEN [status |-> 500, body |-> [error |-> days.exc], calls |-> <<>>]
        ELSE IF ~DaysInRange(days.v)
        THEN [status |-> 400,
              body |-> [error |-> "Days must be between 1 and 30"],
              calls |-> <<>>]
        ELSE LET outcome == RecommenderGetBestGame(window)
                 call == [fn |-> "get_best_game", days |-> IntVal(days.v),
                          favorite_team |-> favorite_team]
             IN  IF outcome.kind = "raise"
                 THEN [status |-> 500, body |-> [error |-> outcome.exc],
                       calls |-> <<call>>]
                 ELSE BestGameResponse(outcome) @@ [calls |-> <<call>>]

\* api_server.py lines 82-103: the handler of GET /api/games.
ApiGetAllGames(args, window) ==
    LET days == PyInt(IF "days" \in DOMAIN args THEN StrVal(args.days)
                      ELSE IntVal(7))
        favorite_team == Get(args, "team", None)
    IN  IF ~days.ok
        THEN [status |-> 500, body |-> [error |-> days.exc], calls |-> <<>>]
        ELSE IF ~DaysInRange(days.v)
        THEN [status |-> 400,
              body |-> [error |-> "Days must be between 1 and 30"],
              calls |-> <<>>]
        ELSE LET outcome == RecommenderGetAllGamesRanked(window)
                 call == [fn |-> "get_all_games_ranked",
                          days |-> IntVal(days.v),
                          favorite_team |-> favorite_team]
             IN  IF outcome.kind = "raise"
                 THEN [status |-> 500, body |-> [error |-> outcome.exc],
                       calls |-> <<call>>]
                 ELSE [status |-> 200,
                       body |-> [success |-> TRUE,
                                 count |-> Len(outcome.value),
                                 data |-> outcome.value],
                       calls |-> <<call>>]

\* str.upper() on the team values of the model.
Upper(str) == IF str = "lal" THEN "LAL" ELSE str

\* f"{x:.1f}" of a number given in tenths.
Format1(tenths) == ToString(tenths \div 10) \o "." \o ToString(tenths % 10)

\* GameService.get_best_game: the answers it can give. Called with an int
\* it validates days, then reports an unavailable provider, a window without
\* completed games, or the best game; what it does with a str is not fixed.
ServiceResponses(days, window) ==
    LET invalid == [success |-> FALSE, error_code |-> "VALIDATION_ERROR",
                    error |-> "Days must be between 1 and 30"]
        timeout == [success |-> FALSE, error_code |-> "NBA_API_TIMEOUT",
                    error |-> "NBA API timed out"]
        internal == [success |-> FALSE, error_code |-> "INTERNAL_ERROR",
                     error |-> "Internal error"]
        nogames == [success |-> FALSE, error_code |-> "NO_GAMES",
                    error |-> "No games found"]
        served == IF window.up = "unavailable" THEN timeout
                  ELSE IF window.games = 0 THEN nogames
                  ELSE [success |-> TRUE, data |-> Ranked(1)]
    IN  IF days.k = "int"
        THEN IF DaysInRange(days.v) THEN {served} ELSE {invalid}
        ELSE {served, invalid, internal}

\* app.py lines 229-236: the value of days after the range check.
TrmnlDays(raw) ==
    LET days_int == PyInt(raw)
    IN  IF ~days_int.ok THEN IntVal(7)
        ELSE IF days_int.v < 1 \/ days_int.v > 14 THEN IntVal(7)
        ELSE raw

\* app.py lines 252-278.
FormattedBreakdown(breakdown) ==
    LET part(f) == Get(breakdown, f, <<>>)
        points(f) == Format1(Get(part(f), "points", 0))
    IN  [top5_teams |-> [count |-> Get(part("top5_teams"), "count", 0),
                         points |-> points("top5_teams")],
         close_game |-> [margin |-> Get(part("close_game"), "margin", 0),
                         points |-> points("close_game")],
         total_points |-> [total |-> Get(part("total_points"), "total", 0),
                           threshold_met |->
                                Get(part("total_points"), "threshold_met", FALSE),
                           points |-> points("total_points")],
         star_power |-> [count |-> Get(part("star_power"), "count", 0),
                         points |-> points("star_power")],
         favorite_team |-> [has_favorite |->
                                Get(part("favorite_team"), "has_favorite", FALSE),
                            points |-> points("favorite_team")]]

TrmnlAnswerAlwaysError(service_response, days) ==
    [status |-> 500,
     body |-> [game |-> None, score |-> "0", breakdown |-> <<>>,
               error_message |-> <<"Error: ", Get(service_response, "error", "Unknown error")>>]]

\* app.py lines 242-315: the answer built from what the service returned;
\* updated_at, the time of the answer, is left out.
TrmnlAnswer(service_response, days) ==
    IF service_response.success
    THEN LET res == service_response.data
         IN  [status |-> 200,
              body |-> [game |-> Get(res, "game", <<>>),
                        score |-> Format1(Get(res, "score", 0)),
                        breakdown |->
                            FormattedBreakdown(Get(res, "breakdown", <<>>))]]
    ELSE IF Get(service_response, "error_code", None) = "NO_GAMES"
    THEN [status |-> 200,
          body |-> [game |-> None, score |-> "0", breakdown |-> <<>>,
                    error_message |->
                        <<"No NBA games found in the past ", days.v, " days">>]]
    ELSE [status |-> 500,
          body |-> [game |-> None, score |-> "0", breakdown |-> <<>>,
                    error_message |->
                        <<"Error: ", Get(service_response, "error", "Unknown error")>>]]

ApiInit == OldIdle /\ RestIdle

\* GET /api/best-game of api_server.py.
GetBestGame ==
    /\ http_pc = "idle"
    /\ \E args \in Args, window \in Windows :
        LET answer == ApiGetBestGame(args, window)
        IN  /\ http_args' = args
            /\ http_window' = window
            /\ rec_calls' = answer.calls
            /\ http_status' = answer.status
            /\ http_body' = answer.body
    /\ http_route' = "/api/best-game"
    /\ http_pc' = "done"
    /\ UNCHANGED httpOthers

\* GET /api/games of api_server.py.
GetAllGames ==
    /\ http_pc = "idle"
    /\ \E args \in Args, window \in Windows :
        LET answer == ApiGetAllGames(args, window)
        IN  /\ http_args' = args
            /\ http_window' = window
            /\ rec_calls' = answer.calls
            /\ http_status' = answer.status
            /\ http_body' = answer.body
    /\ http_route' = "/api/games"
    /\ http_pc' = "done"
    /\ UNCHANGED httpOthers

\* GET /api/trmnl of web/app.py, lines 223-315.
TrmnlWebhook ==
    /\ http_pc = "idle"
    /\ \E args \in Args, window \in Windows :
        LET raw == IF "days" \in DOMAIN args THEN StrVal(args.days) ELSE IntVal(7)
            team == Upper(Get(args, "team", ""))
            favorite_team == IF team = "" THEN None ELSE team
            days == TrmnlDays(raw)
        IN  \E service_response \in ServiceResponses(days, window) :
                LET answer == TrmnlAnswer(service_response, days)
                IN  /\ http_args' = args
                    /\ http_window' = window
                    /\ rec_calls' = <<[fn |-> "service.get_best_game",
                                       days |-> days,
                                       favorite_team |-> favorite_team]>>
                    /\ http_status' = answer.status
                    /\ http_body' = answer.body
    /\ http_route' = "/api/trmnl"
    /\ http_pc' = "done"
    /\ UNCHANGED httpOthers

ApiNext == GetBestGame \/ GetAllGames \/ TrmnlWebhook

ApiSpec == ApiInit /\ [][ApiNext]_vars

\* C14: on /api/best-game and /api/games a days value below 1 or above 30
\* (0 and 31 among them) is answered with 400 and no call reaches the
\* recommender; a days value from 1 to 30 is passed to it unchanged.
C14_DaysValidated ==
    (/\ http_pc = "done"
     /\ http_route \in {"/api/best-game", "/api/games"}
     /\ "days" \in DOMAIN http_args)
        => LET n == PyInt(StrVal(http_args.days))
               rejected == /\ http_status = 400
                           /\ http_body = [error |-> "Days must be between 1 and 30"]
                           /\ rec_calls = <<>>
               passed(d) == /\ Len(rec_calls) = 1
                            /\ rec_calls[1].days = IntVal(d)
                            /\ rec_calls[1].fn =
                                    IF http_route = "/api/best-game"
                                    THEN "get_best_game"
                                    ELSE "get_all_games_ranked"
           IN  /\ n.ok /\ (n.v < 1 \/ n.v > 30) => rejected
               /\ n.ok /\ n.v \in 1..30 => passed(n.v)
               /\ http_args.days \in {<<"0">>, <<"3", "1">>, <<"-", "1">>} => rejected
               /\ http_args.days = <<"1">> => passed(1)
               /\ http_args.days = <<"3", "0">> => passed(30)

C14_Witness ==
    /\ http_pc = "done"
    /\ http_route = "/api/games"
    /\ "days" \in DOMAIN http_args
    /\ http_args.days = <<"3", "1">>
    /\ http_window = [up |-> "ok", games |-> 2]
    /\ http_status = 400
    /\ rec_calls = <<>>

----------------------------------------------------------------------------
(* NBAClient._calculate_lead_changes, specification LeadCountSpec.         *)

\* A score snapshot of the play-by-play.
SnapshotScores == 0..2
Snapshots ==
    {[homeScore |-> h, awayScore |-> a] :
        <<h, a>> \in SnapshotScores \X SnapshotScores}

\* The strict leader of a snapshot, None for a tie.
Leader(action) ==
    IF action.homeScore > action.awayScore THEN "home"
    ELSE IF action.awayScore > action.homeScore THEN "away"
    ELSE None

RECURSIVE ScanTieResets(_, _, _)
ScanTieResets(actions, current_leader, lead_changes) ==
    IF actions = <<>> THEN lead_changes
    ELSE LET new_leader == Leader(Head(actions))
         IN  IF new_leader = None
             THEN ScanTieResets(Tail(actions), None, lead_changes)
             ELSE ScanTieResets(Tail(actions), new_leader,
                                IF current_leader # None
                                   /\ new_leader # current_leader
                                THEN lead_changes + 1 ELSE lead_changes)

\* The scan over the snapshots in order: a tie is skipped; a strict leader
\* that differs from the remembered one counts, unless none is remembered.
RECURSIVE Scan(_, _, _)
Scan(actions, current_leader, lead_changes) ==
    IF actions = <<>> THEN lead_changes
    ELSE LET new_leader == Leader(Head(actions))
         IN  IF new_leader = None
             THEN Scan(Tail(actions), current_leader, lead_changes)
             ELSE Scan(Tail(actions), new_leader,
                       IF current_leader # None /\ new_leader # current_leader
                       THEN lead_changes + 1 ELSE lead_changes)

CalculateLeadChangesTieResets(actions) == ScanTieResets(actions, None, 0)

CalculateLeadChanges(actions) == Scan(actions, None, 0)

LeadCountInit ==
    /\ lc_actions \in UNION {[1..n -> Snapshots] : n \in 0..MaxActions}
    /\ lc_result = -1
    /\ MoreIdle
    /\ OldIdle /\ WindowIdle /\ HttpIdle /\ DetIdle /\ RefIdle /\ CacheIdle

\* A call of _calculate_lead_changes(lc_actions).
CallCalculate ==
    /\ lc_result = -1
    /\ lc_result' = CalculateLeadChanges(lc_actions)
    /\ UNCHANGED <<lc_actions, lcOthers>>

LeadCountNext == CallCalculate

LeadCountSpec == LeadCountInit /\ [][LeadCountNext]_vars

\* The strict leaders of the snapshots that are not tied, in order.
StrictLeaders ==
    LET solid == SelectSeq(lc_actions,
                           LAMBDA x : x.homeScore # x.awayScore)
    IN  [i \in 1..Len(solid) |->
            IF solid[i].homeScore > solid[i].awayScore THEN "home" ELSE "away"]

\* C16: the result is the number of places where the strict leader differs
\* from the strict leader before it, ties being left out: 0 for the empty
\* sequence and for one team leading throughout, and n - 1 when the strict
\* leader alternates n >= 1 times.
C16_LeadChanges ==
    lc_result # -1 =>
        LET L == StrictLeaders
            switches == {i \in 1..(Len(L) - 1) : L[i] # L[i + 1]}
        IN  /\ lc_result = Cardinality(switches)
            /\ lc_actions = <<>> => lc_result = 0
            /\ (\A i \in 1..Len(L) : L[i] = "home") => lc_result = 0
            /\ (\A i \in 1..Len(L) : L[i] = "away") => lc_result = 0
            /\ (Len(L) >= 1 /\ Cardinality(switches) = Len(L) - 1) =>
                    lc_result = Len(L) - 1

C16_Witness ==
    /\ lc_actions = <<[homeScore |-> 0, awayScore |-> 0],
                      [homeScore |-> 1, awayScore |-> 0],
                      [homeScore |-> 1, awayScore |-> 1],
                      [homeScore |-> 1, awayScore |-> 2]>>
    /\ lc_result = 1

----------------------------------------------------------------------------
(* The primary per-date fetch with its per-game detail requests,           *)
(* specification DetailSpec.                                               *)

\* The star players of the reference data.
StarPlayers == {"LeBron James", "Stephen Curry"}

\* What the play-by-play request of one game can get.
PlayByPlayAnswers ==
    {[http |-> "error"],
     [http |-> "ok", actions |-> <<[homeScore |-> 2, awayScore |-> 0],
                                   [homeScore |-> 5, awayScore |-> 2]>>],
     [http |-> "ok", actions |-> <<[homeScore |-> 0, awayScore |-> 2],
                                   [homeScore |-> 3, awayScore |-> 2],
                                   [homeScore |-> 3, awayScore |-> 5]>>]}

\* What the box-score request of one game can get.
BoxScoreAnswers ==
    {[http |-> "error"],
     [http |-> "ok", players |-> {"Regular Player 1", "Regular Player 2"}],
     [http |-> "ok", players |-> {"LeBron James", "Regular Player 2"}]}

DetailAnswers ==
    {[pbp |-> p, box |-> b] : <<p, b>> \in PlayByPlayAnswers \X BoxScoreAnswers}

\* The i-th game of the scoreboard: in progress or final.
DetGames(i) ==
    {WinScoreboardGame(ToString(i), st, 100 + 5 * i, 103) : st \in {2, 3}}

DetScoreboards == UNION {SeqsOf(DetGames, n) : n \in 0..MaxDetGames}

\* _get_star_players_count: the star players among the players of the box
\* score, 0 when the request fails.
StarPlayersCount(box) ==
    IF box.http = "error" THEN 0
    ELSE Cardinality(box.players \cap StarPlayers)

\* _get_game_details: what it can return for the answers its requests got.
\* A failed play-by-play request gives the defaults; with a failed box-score
\* request the star count is 0 and lead_changes is the count or the default.
GameDetails(detail) ==
    LET defaults == [lead_changes |-> 0, star_players_count |-> 0]
    IN  IF detail.pbp.http = "error" THEN {defaults}
        ELSE LET counted == CalculateLeadChanges(detail.pbp.actions)
             IN  IF detail.box.http = "error"
                 THEN {defaults, [lead_changes |-> counted,
                                  star_players_count |-> 0]}
                 ELSE {[lead_changes |-> counted,
                        star_players_count |-> StarPlayersCount(detail.box)]}

DetailResults == UNION {GameDetails(d) : d \in DetailAnswers}

RECURSIVE DetailedFrom(_, _, _, _, _)
DetailedFrom(scoreboard, details, ds, game_date, i) ==
    IF i > Len(scoreboard) THEN <<>>
    ELSE (IF scoreboard[i].gameStatus = 3
          THEN <<PrimaryRecord(scoreboard[i], game_date) @@ ds[i]>>
          ELSE <<>>)
         \o DetailedFrom(scoreboard, details, ds, game_date, i + 1)

DetailedScoreboardAllOrNothing(scoreboard, details, ds, game_date) ==
    IF \E i \in 1..Len(scoreboard) :
            /\ scoreboard[i].gameStatus = 3
            /\ (details[i].pbp.http = "error" \/ details[i].box.http = "error")
    THEN <<>>
    ELSE DetailedFrom(scoreboard, details, ds, game_date, 1)

\* _get_scoreboard on a scoreboard that was fetched: the record of each
\* completed game together with the details ds[i] obtained for it.
DetailedScoreboard(scoreboard, details, ds, game_date) ==
    DetailedFrom(scoreboard, details, ds, game_date, 1)

DetailInit ==
    /\ MoreIdle
    /\ OldIdle /\ WindowIdle /\ HttpIdle /\ LcIdle /\ DetIdle /\ RefIdle
    /\ CacheIdle

\* NBAClient._get_scoreboard(Date) with the detail requests of its games.
FetchWithDetails ==
    /\ det_pc = "idle"
    /\ \E scoreboard \in DetScoreboards :
        \E details \in [1..Len(scoreboard) -> DetailAnswers] :
            \E ds \in [1..Len(scoreboard) -> DetailResults] :
                /\ \A i \in 1..Len(scoreboard) : ds[i] \in GameDetails(details[i])
                /\ det_upstream' = scoreboard
                /\ det_details' = details
                /\ det_result' = DetailedScoreboard(scoreboard, details, ds, Date)
    /\ det_pc' = "done"
    /\ UNCHANGED detOthers

DetailNext == FetchWithDetails

DetailSpec == DetailInit /\ [][DetailNext]_vars

\* The positions of the completed games in the scoreboard, in order.
CompletedPositions ==
    SelectSeq([i \in 1..Len(det_upstream) |-> i],
              LAMBDA i : det_upstream[i].gameStatus = 3)

----------------------------------------------------------------------------
(* The reference sets TOP_5_TEAMS and STAR_PLAYERS of NBAClient,           *)
(* specification RefSpec.                                                  *)

Cached(set) == [k |-> "set", v |-> set]

FALLBACK_TOP5 == {"BOS", "DEN", "MIL", "PHX", "LAL"}
FALLBACK_STARS == {"LeBron James", "Stephen Curry"}

\* What the standings request can get: an error, or the teams by rank.
StandingsAnswers ==
    {[http |-> "error"],
     [http |-> "ok", teams |-> <<"BOS", "DEN", "OKC", "MIN", "LAL", "SAC">>],
     [http |-> "ok", teams |-> <<"OKC", "BOS", "CLE", "DEN", "NYK", "LAL">>]}

\* What the league-leaders request can get: an error, or the leaders.
LeadersAnswers ==
    {[http |-> "error"],
     [http |-> "ok", players |-> {"LeBron James", "Stephen Curry", "Jayson Tatum"}],
     [http |-> "ok", players |-> {"Nikola Jokic", "Stephen Curry"}]}

\* _fetch_top_teams: the first five teams of the standings, the fallback set
\* when the request fails.
FetchTopTeams(answer) ==
    IF answer.http = "error" THEN FALLBACK_TOP5
    ELSE {answer.teams[i] : i \in 1..5}

\* _fetch_star_players: the league leaders, the fallback set when the
\* request fails.
FetchStarPlayers(answer) ==
    IF answer.http = "error" THEN FALLBACK_STARS ELSE answer.players

NeedsFetchAlways(cache) == TRUE

\* The properties fetch only while nothing is cached.
NeedsFetch(cache) == cache = NoCache

RefInit ==
    /\ MoreIdle
    /\ OldIdle /\ WindowIdle /\ HttpIdle /\ LcIdle /\ DetIdle /\ RefIdle
    /\ CacheIdle

\* An access of the property TOP_5_TEAMS.
AccessTop5 ==
    /\ ref_accesses < MaxAccesses
    /\ ref_accesses' = ref_accesses + 1
    /\ IF NeedsFetch(top5_cache)
       THEN \E answer \in StandingsAnswers :
                /\ top5_cache' = Cached(FetchTopTeams(answer))
                /\ ref_requests' = [ref_requests EXCEPT !.top5 = @ + 1]
                /\ ref_returned' = [op |-> "top5", n |-> ref_accesses',
                                    answer |-> answer,
                                    value |-> FetchTopTeams(answer)]
       ELSE /\ ref_returned' = [op |-> "top5", n |-> ref_accesses',
                                answer |-> [http |-> "none"],
                                value |-> top5_cache.v]
            /\ UNCHANGED <<top5_cache, ref_requests>>
    /\ UNCHANGED <<stars_cache, refOthers>>

\* An access of the property STAR_PLAYERS.
AccessStars ==
    /\ ref_accesses < MaxAccesses
    /\ ref_accesses' = ref_accesses + 1
    /\ IF NeedsFetch(stars_cache)
       THEN \E answer \in LeadersAnswers :
                /\ stars_cache' = Cached(FetchStarPlayers(answer))
                /\ ref_requests' = [ref_requests EXCEPT !.stars = @ + 1]
                /\ ref_returned' = [op |-> "stars", n |-> ref_accesses',
                                    answer |-> answer,
                                    value |-> FetchStarPlayers(answer)]
       ELSE /\ ref_returned' = [op |-> "stars", n |-> ref_accesses',
                                answer |-> [http |-> "none"],
                                value |-> stars_cache.v]
            /\ UNCHANGED <<stars_cache, ref_requests>>
    /\ UNCHANGED <<top5_cache, refOthers>>

\* refresh_reference_data: the explicit invalidation of both sets.
Invalidate ==
    /\ ref_accesses < MaxAccesses
    /\ ref_accesses' = ref_accesses + 1
    /\ top5_cache' = NoCache
    /\ stars_cache' = NoCache
    /\ ref_returned' = [op |-> "invalidate", n |-> ref_accesses']
    /\ UNCHANGED <<ref_requests, refOthers>>

RefNext == AccessTop5 \/ AccessStars \/ Invalidate

RefSpec == RefInit /\ [][RefNext]_vars

C18_Inv ==
    /\ top5_cache # NoCache => Cardinality(top5_cache.v) = 5
    /\ stars_cache # NoCache => stars_cache.v # {}
    /\ (ref_returned.op \in {"top5", "stars"}
        /\ ref_returned.answer.http = "error") =>
            /\ ref_returned.op = "top5" =>
                    /\ ref_returned.value = FALLBACK_TOP5
                    /\ Cardinality(ref_returned.value) = 5
                    /\ top5_cache = Cached(FALLBACK_TOP5)
            /\ ref_returned.op = "stars" =>
                    /\ ref_returned.value = FALLBACK_STARS
                    /\ ref_returned.value # {}
                    /\ stars_cache = Cached(FALLBACK_STARS)

C18_Step ==
    /\ (top5_cache # NoCache /\ ref_returned'.op = "top5") =>
            /\ ref_returned'.value = top5_cache.v
            /\ top5_cache' = top5_cache
            /\ ref_requests' = ref_requests
    /\ (stars_cache # NoCache /\ ref_returned'.op = "stars") =>
            /\ ref_returned'.value = stars_cache.v
            /\ stars_cache' = stars_cache
            /\ ref_requests' = ref_requests
    /\ (top5_cache = NoCache /\ ref_returned'.op = "top5") =>
            ref_requests'.top5 = ref_requests.top5 + 1
    /\ (stars_cache = NoCache /\ ref_returned'.op = "stars") =>
            ref_requests'.stars = ref_requests.stars + 1
    /\ ref_returned'.op # "invalidate" =>
            /\ top5_cache # NoCache => top5_cache' = top5_cache
            /\ stars_cache # NoCache => stars_cache' = stars_cache

\* C18: each reference set is fetched by the access that finds nothing
\* cached, with one request; every later access returns the cached set and
\* sends no request, until an invalidation; a failed fetch yields the fixed
\* fallback set (5 teams, a non-empty player set).
C18_FetchedOnce == [](C18_Inv) /\ [][C18_Step]_vars

C18_Witness ==
    /\ ref_accesses = 3
    /\ ref_requests = [top5 |-> 1, stars |-> 0]
    /\ ref_returned = [op |-> "top5", n |-> 3, answer |-> [http |-> "none"],
                       value |-> FALLBACK_TOP5]
    /\ top5_cache = Cached(FALLBACK_TOP5)

----------------------------------------------------------------------------
(* get_cached_or_fetch and the request cache of interfaces/web/app.py,     *)
(* specification CacheSpec.                                                *)

\* Line 37: _cache_ttl_seconds, the ttl_seconds of every call.
CACHE_TTL_SECONDS == 300
\* Line 71: the size above which the cache is cleaned up.
CACHE_MAX_ENTRIES == 100
\* Line 74: the number of entries a cleanup removes.
CACHE_EVICT_COUNT == 50

KeysOf(cache) == {cache[i].key : i \in 1..Len(cache)}

\* The position of key in the cache, 0 when it has no entry.
IndexOf(cache, key) ==
    IF key \in KeysOf(cache)
    THEN CHOOSE i \in 1..Len(cache) : cache[i].key = key
    ELSE 0

\* Line 73: the place of entry i in sorted(items, key = timestamp); the sort
\* is stable, so equal timestamps keep the order of the dict.
SortedPlace(cache, i) ==
    Cardinality({j \in 1..Len(cache) :
                    \/ cache[j].time < cache[i].time
                    \/ (cache[j].time = cache[i].time /\ j < i)})

EvictNewest(cache) ==
    LET keep == {i \in 1..Len(cache) :
                    SortedPlace(cache, i) < Len(cache) - CACHE_EVICT_COUNT}
    IN  SelectSeq([i \in 1..Len(cache) |-> IF i \in keep THEN cache[i]
                                           ELSE [key |-> 0]],
                  LAMBDA e : e.key # 0)

\* Lines 73-75: the first CACHE_EVICT_COUNT entries of the sorted items are
\* deleted.
Evict(cache) ==
    LET keep == {i \in 1..Len(cache) :
                    SortedPlace(cache, i) >= CACHE_EVICT_COUNT}
    IN  SelectSeq([i \in 1..Len(cache) |-> IF i \in keep THEN cache[i]
                                           ELSE [key |-> 0]],
                  LAMBDA e : e.key # 0)

\* Line 68: the assignment _request_cache[cache_key] = (fresh_data, now); an
\* existing key keeps its place in the dict.
Store(cache, key, data, time) ==
    LET i == IndexOf(cache, key)
        entry == [key |-> key, data |-> data, time |-> time]
    IN  IF i = 0 THEN Append(cache, entry)
        ELSE [cache EXCEPT ![i] = entry]

GetCachedOrFetchAtInclusive(cache, key, now, fresh_data, ttl_seconds) ==
    LET i == IndexOf(cache, key)
    IN  IF i # 0 /\ now - cache[i].time <= ttl_seconds
        THEN [cache |-> cache, returned |-> cache[i].data, fetched |-> FALSE]
        ELSE LET stored == Store(cache, key, fresh_data, now)
             IN  [cache |-> IF Len(stored) > CACHE_MAX_ENTRIES
                            THEN Evict(stored) ELSE stored,
                  returned |-> fresh_data,
                  fetched |-> TRUE]

\* Lines 52-77: get_cached_or_fetch(key, fetch_func, ttl_seconds) at time
\* now, fetch_func returning fresh_data. It gives the cache it leaves, the
\* value it returns and whether fetch_func was called.
GetCachedOrFetchAt(cache, key, now, fresh_data, ttl_seconds) ==
    LET i == IndexOf(cache, key)
    IN  IF i # 0 /\ now - cache[i].time < ttl_seconds
        THEN [cache |-> cache, returned |-> cache[i].data, fetched |-> FALSE]
        ELSE LET stored == Store(cache, key, fresh_data, now)
             IN  [cache |-> IF Len(stored) > CACHE_MAX_ENTRIES
                            THEN Evict(stored) ELSE stored,
                  returned |-> fresh_data,
                  fetched |-> TRUE]

\* The cache after n calls with n different keys, one second apart (spread)
\* or all within the same second.
Filled(n, spread) ==
    [i \in 1..n |-> [key |-> i, data |-> i, time |-> IF spread THEN i ELSE 0]]

CacheInit ==
    /\ \E n \in {0, 2, CACHE_MAX_ENTRIES - 1, CACHE_MAX_ENTRIES},
          spread \in BOOLEAN :
        /\ request_cache = Filled(n, spread)
        /\ cache_now = IF spread THEN n ELSE 0
        /\ fetch_count = n
    /\ cache_calls = 0
    /\ cache_last = [key |-> 0]
    /\ MoreIdle
    /\ OldIdle /\ WindowIdle /\ HttpIdle /\ LcIdle /\ DetIdle /\ RefIdle

\* The keys a call can carry: the key of the oldest or of the newest entry
\* of the dict, or a key without an entry.
CallKeys ==
    {fetch_count + 1}
        \cup (IF request_cache = <<>> THEN {}
              ELSE {request_cache[1].key,
                    request_cache[Len(request_cache)].key})

\* A call of get_cached_or_fetch, some seconds after the call before it.
GetCachedOrFetch ==
    /\ cache_calls < MaxCacheCalls
    /\ \E key \in CallKeys,
          passed \in {0, 1, CACHE_TTL_SECONDS - 1, CACHE_TTL_SECONDS} :
        LET now == cache_now + passed
            call == GetCachedOrFetchAt(request_cache, key, now,
                                       fetch_count + 1, CACHE_TTL_SECONDS)
        IN  /\ cache_now' = now
            /\ request_cache' = call.cache
            /\ fetch_count' = IF call.fetched THEN fetch_count + 1
                              ELSE fetch_count
            /\ cache_last' = [key |-> key, returned |-> call.returned,
                              fetched |-> call.fetched]
    /\ cache_calls' = cache_calls + 1
    /\ UNCHANGED cacheOthers

CacheNext == GetCachedOrFetch

CacheSpec == CacheInit /\ [][CacheNext]_vars

C20_Inv ==
    /\ Len(request_cache) <= 100
    /\ (cache_calls > 0 /\ cache_last.fetched) =>
            \E i \in 1..Len(request_cache) :
                /\ request_cache[i].key = cache_last.key
                /\ request_cache[i].data = cache_last.returned

C20_Step ==
    LET old == request_cache
        new == request_cache'
        key == cache_last'.key
        overflow == Len(old) = 100 /\ key \notin KeysOf(old)
        EntriesOf(c) == {c[i] : i \in 1..Len(c)}
        inserted == {e \in EntriesOf(new) : e.key = key}
        removed == (EntriesOf(old) \cup inserted) \ EntriesOf(new)
    IN  /\ overflow =>
            /\ cache_last'.fetched
            /\ Len(new) = 51
            /\ Cardinality(removed) = 50
            /\ removed \subseteq EntriesOf(old)
            /\ \A r \in removed, k \in EntriesOf(new) : r.time <= k.time
            /\ key \in KeysOf(new)
        /\ ~overflow =>
            /\ KeysOf(new) = KeysOf(old) \cup {key}
            /\ Len(new) <= 100

\* C20: after every completed call the cache holds at most 100 entries; a
\* call that makes it hold 101 removes the 50 entries with the oldest
\* timestamps and no other, and the entry just fetched is still there.
C20_CacheBounded == [](C20_Inv) /\ [][C20_Step]_vars

C20_Witness ==
    /\ cache_calls = 2
    /\ Len(request_cache) = 51
    /\ cache_last.fetched
    /\ request_cache[51].key = cache_last.key
    /\ request_cache[1].key = 51

C21_Inv ==
    cache_calls > 0 =>
        \E i \in 1..Len(request_cache) :
            /\ request_cache[i].key = cache_last.key
            /\ request_cache[i].data = cache_last.returned
            /\ cache_now - request_cache[i].time < 300

C21_Step ==
    LET old == request_cache
        new == request_cache'
        key == cache_last'.key
        now == cache_now'
        i == IndexOf(old, key)
        hit == i # 0 /\ now - old[i].time < 300
    IN  /\ cache_last'.fetched = ~hit
        /\ hit =>
            /\ cache_last'.returned = old[i].data
            /\ fetch_count' = fetch_count
            /\ new = old
        /\ ~hit =>
            /\ fetch_count' = fetch_count + 1
            /\ cache_last'.returned = fetch_count'
            /\ \E j \in 1..Len(new) :
                    new[j] = [key |-> key, data |-> fetch_count', time |-> now]

\* C21: a call returns the stored value, without calling fetch_func, exactly
\* when the key has an entry whose age is below the time to live of 300
\* seconds; otherwise it calls fetch_func once, stores the result under the
\* key with the current time and returns it, so the value a call returns
\* is never 300 seconds old or older.
C21_HitOrFetch == [](C21_Inv) /\ [][C21_Step]_vars

\* An entry read exactly 300 seconds after it was stored is fetched again
\* and replaced where it stood.
C21_Witness ==
    /\ cache_calls = 1
    /\ cache_last = [key |-> 2, returned |-> 3, fetched |-> TRUE]
    /\ Len(request_cache) = 2
    /\ request_cache[2] = [key |-> 2, data |-> 3, time |-> 302]
    /\ cache_now = 302

\* An entry read 299 seconds after it was stored is served.
C21_WitnessHit ==
    /\ cache_calls = 1
    /\ cache_last = [key |-> 2, returned |-> 2, fetched |-> FALSE]
    /\ request_cache[2].time = 2
    /\ cache_now = 301

C22_Inv ==
    pc # "idle" =>
        /\ records = RecordsOf(games)
        /\ pc = "done" =>
              \A g \in DOMAIN result :
                  /\ g \in Ids(games)
                  /\ DOMAIN result[g] = {"score", "reasoning"}

C22_Step == pc # "idle" => (records' = records /\ games' = games)

\* C22: from the moment score_games has the batch to the moment it returns,
\* on every path, every game dict of the batch keeps the keys and values it
\* had; the buzz scores are only in the returned mapping, whose keys are
\* game_ids of the batch and whose values hold score and reasoning.
C22_RecordsUnmodified == [](C22_Inv) /\ [][C22_Step]_vars

C22_Witness ==
    /\ pc = "done"
    /\ path = "parsed"
    /\ Len(games) = 2
    /\ records = RecordsOf(games)
    /\ \E g \in DOMAIN result : result[g].score = Num(20)

----------------------------------------------------------------------------
(* _get_api_key and BuzzScorer.__init__ (buzz_scorer.py:20-68)             *)

\* What the security command can print: nothing, a newline, the key with
\* and without its newline, the key between newlines.
Stdouts == {<<>>, <<"n">>, <<"k", "n">>, <<"k">>, <<"n", "k", "n">>}

ReturnCodes == {0, 1, 44}

\* Lines 29-42: subprocess.run returns a CompletedProcess or raises; the
\* security command is missing, it times out, or it cannot be executed.
Runs ==
    {[kind |-> "FileNotFoundError"], [kind |-> "TimeoutExpired"],
     [kind |-> "PermissionError"]}
    \cup {[kind |-> "completed", returncode |-> c, stdout |-> o] :
            c \in ReturnCodes, o \in Stdouts}

\* os.environ: ANTHROPIC_API_KEY unset, empty, a key, a newline.
EnvValues ==
    {[set |-> FALSE]}
    \cup {[set |-> TRUE, value |-> v] : v \in {<<>>, <<"e">>, <<"n">>}}

KeyNone == [kind |-> "return", none |-> TRUE]
KeyReturn(v) == [kind |-> "return", none |-> FALSE, value |-> v]

\* Lines 50-55: the environment variable when it is set and not empty.
EnvKey(env) ==
    IF env.set /\ env.value # <<>> THEN KeyReturn(env.value) ELSE KeyNone

GetApiKeyEnvFirst(run, env) ==
    IF EnvKey(env) # KeyNone THEN EnvKey(env)
    ELSE IF run.kind = "completed"
    THEN IF run.returncode = 0 /\ Strip(run.stdout) # <<>>
         THEN KeyReturn(Strip(run.stdout))
         ELSE KeyNone
    ELSE IF run.kind \in {"FileNotFoundError", "TimeoutExpired"}
    THEN KeyNone
    ELSE [kind |-> "raise", exc |-> run.kind]

\* Lines 28-55: _get_api_key(). Only FileNotFoundError and TimeoutExpired
\* are caught at line 46; any other exception of subprocess.run leaves
\* the function.
GetApiKey(run, env) ==
    IF run.kind = "completed"
    THEN IF run.returncode = 0 /\ Strip(run.stdout) # <<>>
         THEN KeyReturn(Strip(run.stdout))
         ELSE EnvKey(env)
    ELSE IF run.kind \in {"FileNotFoundError", "TimeoutExpired"}
    THEN EnvKey(env)
    ELSE [kind |-> "raise", exc |-> run.kind]

KeyInit ==
    /\ key_run \in Runs
    /\ key_env \in EnvValues
    /\ key_result = NotCalled
    /\ ctor_arg = "unused"
    /\ BuzzIdle /\ LeadIdle /\ AdapterIdle /\ RankIdle /\ ConcIdle
    /\ WindowIdle /\ HttpIdle /\ LcIdle /\ DetIdle /\ RefIdle /\ CacheIdle

CallGetApiKey ==
    /\ key_result = NotCalled
    /\ key_result' = GetApiKey(key_run, key_env)
    /\ UNCHANGED <<ctor_arg, key_run, key_env, buzzVars, keyOthers>>

KeyNext == CallGetApiKey

KeySpec == KeyInit /\ [][KeyNext]_vars

KeychainValue ==
    /\ key_run.kind = "completed"
    /\ key_run.returncode = 0
    /\ Strip(key_run.stdout) # <<>>

\* C24: _get_api_key returns the keychain value whenever the security
\* command exits with code 0 and printed a value (output that is not empty
\* once stripped), whatever the environment holds; otherwise the
\* environment variable when it is set and not empty; otherwise None. A
\* missing or timed-out security command is a command without a value, and
\* the function returns.
C24_KeyPriority ==
    key_result # NotCalled =>
        /\ KeychainValue =>
              key_result = KeyReturn(Strip(key_run.stdout))
        /\ (~KeychainValue /\ key_run.kind # "PermissionError") =>
              IF key_env.set /\ key_env.value # <<>>
              THEN key_result = KeyReturn(key_env.value)
              ELSE key_result = KeyNone
        /\ key_run.kind \in {"FileNotFoundError", "TimeoutExpired"} =>
              key_result.kind = "return"

\* The keychain has a key and the environment another: the keychain wins.
C24_Witness ==
    /\ key_run = [kind |-> "completed", returncode |-> 0,
                  stdout |-> <<"k", "n">>]
    /\ key_env = [set |-> TRUE, value |-> <<"e">>]
    /\ key_result = KeyReturn(<<"k">>)

\* The security command timed out and the environment has a key.
C24_WitnessTimeout ==
    /\ key_run.kind = "TimeoutExpired"
    /\ key_result = KeyReturn(<<"e">>)

\* BuzzScorer(api_key): the argument is None (the default) or a key.
CtorArgs == {None, "sk"}

Truthy(x) == x # None /\ x # ""

InitApiKeyNoFallback(arg, run, env) ==
    IF Truthy(arg) THEN KeyReturn(arg) ELSE KeyNone

\* Line 62: self.api_key = api_key or _get_api_key().
InitApiKey(arg, run, env) ==
    IF Truthy(arg) THEN KeyReturn(arg) ELSE GetApiKey(run, env)

CtorInit ==
    /\ ctor_arg \in CtorArgs
    /\ key_run = [kind |-> "none"]
    /\ key_env = [set |-> FALSE]
    /\ key_result = NotCalled
    /\ api_key = "none"
    /\ pc = "new"
    /\ games = <<>>
    /\ records = <<>>
    /\ calls = 0
    /\ requests = 0
    /\ continuations = 0
    /\ response = NoResponse
    /\ parsed = 0
    /\ parse_result = NotParsed
    /\ path = "none"
    /\ raised = "none"
    /\ result = <<>>
    /\ LeadIdle /\ AdapterIdle /\ RankIdle /\ ConcIdle
    /\ WindowIdle /\ HttpIdle /\ LcIdle /\ DetIdle /\ RefIdle /\ CacheIdle

\* Lines 61-63: the constructor, in some state of the keychain and of the
\* environment.
Construct ==
    /\ pc = "new"
    /\ \E run \in Runs, env \in EnvValues :
        LET key == InitApiKey(ctor_arg, run, env)
        IN  /\ key_result' = IF Truthy(ctor_arg) THEN NotCalled ELSE key
            /\ IF key.kind = "raise"
               THEN pc' = "ctor_raised" /\ api_key' = api_key
               ELSE /\ pc' = "idle"
                    /\ api_key' = IF key.none THEN "none" ELSE "key"
    /\ UNCHANGED <<games, records, calls, requests, continuations, response,
                   parsed, parse_result, path, raised, result, ctor_arg,
                   key_run, key_env, keyOthers>>

CtorNext == Construct \/ Next

CtorSpec == CtorInit /\ [][CtorNext]_vars

Constructed == pc \notin {"new", "ctor_raised"}

\* C23: a BuzzScorer constructed with api_key = None is not available, and
\* its score_games sends no request to the provider and returns score 0
\* for every game.
C23_NoneIsUnavailable ==
    (ctor_arg = None /\ Constructed) =>
        /\ ~Available
        /\ requests = 0
        /\ pc = "done" => result = Zeros(games)

\* A BuzzScorer whose api_key is None after construction is not available,
\* sends no request and returns score 0 for every game.
C23_NoKeyIsUnavailable ==
    (api_key = "none" /\ Constructed) =>
        /\ ~Available
        /\ requests = 0 /\ calls = 0
        /\ pc = "done" => (result = Zeros(games) /\ path = "no_key")

C23_WitnessNoKey ==
    /\ ctor_arg = None
    /\ key_result = KeyNone
    /\ api_key = "none"
    /\ pc = "done"
    /\ Len(games) = 2
    /\ result = Zeros(games)

----------------------------------------------------------------------------
(* GameRecommender.get_all_games_ranked: the ordering of the ranking.      *)

RankIds == 1..MaxRankGames

\* A scored game: its game_id, the day of its game_date and the total of
\* its ScoreBreakdown. Two totals and two days make ties happen.
ScoredGames ==
    [game_id : RankIds, game_date : {1, 2}, total : {10, 20}]

\* The windows in fetch order: game_id is unique per game.
FetchOrders ==
    UNION {{f \in [1..n -> ScoredGames] :
                \A i, j \in 1..n : i # j => f[i].game_id # f[j].game_id} :
           n \in 0..MaxRankGames}

\* The orders in which a provider can return the same games again.
Refetches(fetched) ==
    {f \in [1..Len(fetched) -> {fetched[i] : i \in 1..Len(fetched)}] :
        \A i, j \in 1..Len(fetched) : i # j => f[i] # f[j]}

RankBeforeByTotal(a, b) == a.total > b.total

\* The order of the ranking: higher total first; among equal totals the
\* more recent game_date first, then the smaller game_id.
RankBefore(a, b) ==
    \/ a.total > b.total
    \/ a.total = b.total /\ a.game_date > b.game_date
    \/ a.total = b.total /\ a.game_date = b.game_date
            /\ a.game_id < b.game_id

\* The place of element i of a list in a stable sort by RankBefore.
RankPlace(list, i) ==
    Cardinality({j \in 1..Len(list) :
                    \/ RankBefore(list[j], list[i])
                    \/ (~RankBefore(list[i], list[j]) /\ j < i)})

\* get_all_games_ranked on the scored games of a window.
GetAllGamesRanked(fetched) ==
    [k \in 1..Len(fetched) |->
        fetched[CHOOSE i \in 1..Len(fetched) : RankPlace(fetched, i) = k - 1]]

RankInit ==
    /\ rank_pc = 0
    /\ rank_fetched \in FetchOrders
    /\ rank_refetched = <<>>
    /\ rank_first = <<>>
    /\ rank_second = <<>>
    /\ OldIdle /\ WindowIdle /\ HttpIdle /\ LcIdle /\ DetIdle /\ RefIdle
    /\ CacheIdle /\ KeyIdle /\ ConcIdle

\* The first call.
CallRanked ==
    /\ rank_pc = 0
    /\ rank_first' = GetAllGamesRanked(rank_fetched)
    /\ rank_pc' = 1
    /\ UNCHANGED <<rank_fetched, rank_refetched, rank_second, rankOthers>>

\* The second call: the same games and reference data, fetched again.
CallRankedAgain ==
    /\ rank_pc = 1
    /\ \E again \in Refetches(rank_fetched) :
        /\ rank_refetched' = again
        /\ rank_second' = GetAllGamesRanked(again)
    /\ rank_pc' = 2
    /\ UNCHANGED <<rank_fetched, rank_first, rankOthers>>

RankNext == CallRanked \/ CallRankedAgain

RankSpec == RankInit /\ [][RankNext]_vars

\* C25: the ranking holds the games of the window ordered by total score,
\* highest first, and a second call on the same games returns the same
\* ordering in whatever order the games were fetched.
C25_RankingDeterministic ==
    /\ rank_pc >= 1 =>
        /\ Len(rank_first) = Len(rank_fetched)
        /\ {rank_first[i] : i \in 1..Len(rank_first)}
                = {rank_fetched[i] : i \in 1..Len(rank_fetched)}
        /\ \A i \in 1..Len(rank_first) - 1 :
                rank_first[i].total >= rank_first[i + 1].total
    /\ rank_pc = 2 => rank_second = rank_first

\* Two games tie on the total, the second call fetched them the other way
\* round, and both rankings start with the more recent one.
C25_Witness ==
    /\ rank_pc = 2
    /\ Len(rank_fetched) = MaxRankGames
    /\ rank_refetched # rank_fetched
    /\ rank_fetched[1].total = rank_fetched[2].total
    /\ rank_fetched[1].game_date < rank_fetched[2].game_date
    /\ rank_first[1] = rank_fetched[2]
    /\ rank_second = rank_first

----------------------------------------------------------------------------
(* The dates get_games_last_n_days queries.                                *)

RECURSIVE FetchedUpTo(_)
FetchedUpTo(n) ==
    IF n = 0 THEN <<>>
    ELSE FetchedUpTo(n - 1)
            \o PerDateFetch(win_adapter, win_answers[n],
                            StrfTime(Today - win_days + n - 1))

QueriedDates ==
    LET gets == SelectSeq(win_log, LAMBDA e : e.ev = "get")
    IN  [i \in 1..Len(gets) |-> gets[i].date]

C26_Inv ==
    /\ win_pc # "idle" =>
        /\ win_games = FetchedUpTo(Len(win_answers))
        /\ win_adapter = "backup" =>
                /\ Len(QueriedDates) = Len(win_answers)
                /\ \A i \in 1..Len(QueriedDates) :
                        QueriedDates[i] = StrfTime(Today - win_days + i - 1)
    /\ (win_pc = "done" /\ win_days >= 0) =>
        /\ Len(win_answers) = win_days + 1
        /\ win_adapter = "backup" =>
                /\ QueriedDates[1] = StrfTime(Today - win_days)
                /\ QueriedDates[win_days + 1] = StrfTime(Today)
    /\ (win_pc # "idle" /\ win_days < 0) =>
        /\ win_answers = <<>>
        /\ win_log = <<>>
        /\ win_games = <<>>

\* C26: for days = N >= 0 the call queries the N + 1 dates from today - N
\* to today, each once and in ascending order, and returns the per-date
\* lists concatenated in that order; for N < 0 it queries nothing and
\* returns the empty list; and every call returns.
C26_WindowDates == [](C26_Inv) /\ (win_pc = "loop" ~> win_pc = "done")

C26_Witness ==
    /\ win_pc = "done"
    /\ win_adapter = "backup"
    /\ win_days = MaxDays
    /\ QueriedDates[1] = StrfTime(Today - MaxDays)
    /\ QueriedDates[MaxDays + 1] = "2024-01-15"
    /\ Len(win_games) = 2

C26_WitnessNegative ==
    /\ win_pc = "done"
    /\ win_days = -2
    /\ win_games = <<>>

----------------------------------------------------------------------------
(* The days /api/trmnl hands to the game service.                          *)

\* C27: /api/trmnl calls get_best_game with an integer days between 1 and
\* 14: the integer the days parameter reads as when that is between 1 and
\* 14, and 7 for every other value and for a missing parameter.
C27_TrmnlDaysInteger ==
    (http_pc = "done" /\ http_route = "/api/trmnl") =>
        LET call == rec_calls[1]
            given == PyInt(IF "days" \in DOMAIN http_args
                           THEN StrVal(http_args.days) ELSE IntVal(7))
            valid == given.ok /\ given.v >= 1 /\ given.v <= 14
        IN  /\ Len(rec_calls) = 1
            /\ call.days.k = "int"
            /\ call.days.v >= 1 /\ call.days.v <= 14
            /\ call.days.v = IF valid THEN given.v ELSE 7

\* Every value that is out of range, not a number or missing is replaced
\* by the integer 7.
C27_InvalidReplaced ==
    (http_pc = "done" /\ http_route = "/api/trmnl") =>
        LET given == PyInt(IF "days" \in DOMAIN http_args
                           THEN StrVal(http_args.days) ELSE IntVal(7))
            valid == given.ok /\ given.v >= 1 /\ given.v <= 14
        IN  IF valid /\ "days" \in DOMAIN http_args
            THEN rec_calls[1].days = StrVal(http_args.days)
            ELSE rec_calls[1].days = IntVal(7)

----------------------------------------------------------------------------
(* POST /api/sync and concurrent calls of get_cached_or_fetch              *)
(* (interfaces/web/app.py:40-136). app.run serves each request in its own  *)
(* thread; the threads share _request_cache and may be switched between    *)
(* any two statements.                                                     *)

\* os.environ.get("SYNC_TOKEN"): unset, empty, or a secret.
SyncTokens == {None, "", "s"}

\* request.headers.get("X-Sync-Token"): missing, empty, the secret, another.
SyncHeaders == {None, "", "s", "x"}

AuthStatusLax(token, provided_token) ==
    IF ~Truthy(token) THEN 503
    ELSE IF Truthy(provided_token) /\ provided_token # token THEN 401
    ELSE 0

\* Lines 105-112: the status the token check answers with, 0 when the
\* request passes it.
AuthStatus(token, provided_token) ==
    IF ~Truthy(token) THEN 503
    ELSE IF ~Truthy(provided_token) \/ provided_token # token THEN 401
    ELSE 0

\* The keys of the requests: keys the cache does not hold at the start.
ReqKeys == {CACHE_MAX_ENTRIES + 1, CACHE_MAX_ENTRIES + 2}

\* The cache n earlier calls left, filled from version 0 of the database.
ConcFilled(n) == [i \in 1..n |-> [key |-> i, data |-> 0, time |-> i]]

ThReturn(v) == [kind |-> "return", value |-> v]
ThKeyError(where) == [kind |-> "raise", exc |-> "KeyError", at |-> where]

\* Lines 73-74: the keys of sorted_keys[:50].
SortedFirst(cache) ==
    LET n == IF Len(cache) < CACHE_EVICT_COUNT THEN Len(cache)
             ELSE CACHE_EVICT_COUNT
    IN  [k \in 1..n |->
            cache[CHOOSE i \in 1..Len(cache) : SortedPlace(cache, i) = k - 1].key]

\* Line 75: del _request_cache[key] for a key the dict holds.
Delete(cache, key) == SelectSeq(cache, LAMBDA e : e.key # key)

\* The threads and the sync request before they begin, on the cache that
\* n earlier calls left.
ConcStart(n) ==
    /\ request_cache = ConcFilled(n)
    /\ cache_now = n
    /\ cache_calls = 0
    /\ cache_last = [key |-> 0]
    /\ fetch_count = 0
    /\ th_pc = [t \in Threads |-> "idle"]
    /\ th_key = [t \in Threads |-> 0]
    /\ th_data = [t \in Threads |-> 0]
    /\ th_sorted = [t \in Threads |-> <<>>]
    /\ th_result = [t \in Threads |-> NotCalled]
    /\ th_late = [t \in Threads |-> FALSE]
    /\ sync_pc = "idle"
    /\ sync_header = None
    /\ sync_status = 0
    /\ sync_ran = 0
    /\ db_version = 0
    /\ OldIdle /\ WindowIdle /\ HttpIdle /\ LcIdle /\ DetIdle /\ RefIdle
    /\ KeyIdle /\ RankIdle

\* A sync request and /recommend requests on a cache far below its limit.
SyncInit ==
    /\ \E n \in {0, 2} : ConcStart(n)
    /\ sync_token \in SyncTokens

\* /recommend requests on a cache at its limit; no sync request arrives.
OverflowInit ==
    /\ ConcStart(CACHE_MAX_ENTRIES)
    /\ sync_token = None

syncFrame == <<th_pc, th_key, th_data, th_sorted, th_result, th_late,
               sync_token, concOthers>>
threadFrame == <<sync_pc, sync_token, sync_header, sync_status, sync_ran,
                 db_version, concOthers>>

\* Lines 104-112: the request arrives and its token is checked.
SyncAuth ==
    /\ sync_pc = "idle"
    /\ \E provided_token \in SyncHeaders :
        /\ sync_header' = provided_token
        /\ sync_status' = AuthStatus(sync_token, provided_token)
        /\ sync_pc' = IF sync_status' = 0 THEN "run" ELSE "done"
    /\ UNCHANGED <<request_cache, sync_ran, db_version, syncFrame>>

\* Lines 116-117: sync_all writes the new data to the database and returns.
SyncRunReturns ==
    /\ sync_pc = "run"
    /\ sync_ran' = sync_ran + 1
    /\ db_version' = db_version + 1
    /\ sync_pc' = "clear"
    /\ UNCHANGED <<request_cache, sync_header, sync_status, syncFrame>>

\* Lines 116-117 and 134-136: the sync raises; the handler answers 500.
SyncRunRaises ==
    /\ sync_pc = "run"
    /\ sync_ran' = sync_ran + 1
    /\ sync_status' = 500
    /\ sync_pc' = "done"
    /\ UNCHANGED <<request_cache, sync_header, db_version, syncFrame>>

\* Lines 120-133: the global is bound to a new empty dict; the answer.
SyncClear ==
    /\ sync_pc = "clear"
    /\ request_cache' = <<>>
    /\ sync_status' = 200
    /\ sync_pc' = "done"
    /\ UNCHANGED <<sync_header, sync_ran, db_version, syncFrame>>

\* A /recommend request reaches get_cached_or_fetch with its cache_key.
ThStart(t) ==
    /\ th_pc[t] = "idle"
    /\ \E key \in ReqKeys : th_key' = [th_key EXCEPT ![t] = key]
    /\ th_late' = [th_late EXCEPT ![t] = sync_pc = "done" /\ sync_status = 200]
    /\ th_pc' = [th_pc EXCEPT ![t] = "contains"]
    /\ UNCHANGED <<request_cache, th_data, th_sorted, th_result, threadFrame>>

\* Line 55: if cache_key in _request_cache.
ThContains(t) ==
    /\ th_pc[t] = "contains"
    /\ th_pc' = [th_pc EXCEPT ![t] = IF th_key[t] \in KeysOf(request_cache)
                                      THEN "lookup" ELSE "fetch"]
    /\ UNCHANGED <<request_cache, th_key, th_data, th_sorted, th_result,
                   th_late, threadFrame>>

\* Lines 56-63: the entry is read from the global again and its age tested.
ThLookup(t) ==
    /\ th_pc[t] = "lookup"
    /\ LET i == IndexOf(request_cache, th_key[t])
       IN  IF i = 0
           THEN /\ th_pc' = [th_pc EXCEPT ![t] = "failed"]
                /\ th_result' = [th_result EXCEPT ![t] = ThKeyError("lookup")]
           ELSE IF cache_now - request_cache[i].time < CACHE_TTL_SECONDS
           THEN /\ th_pc' = [th_pc EXCEPT ![t] = "returned"]
                /\ th_result' =
                      [th_result EXCEPT ![t] = ThReturn(request_cache[i].data)]
           ELSE /\ th_pc' = [th_pc EXCEPT ![t] = "fetch"]
                /\ th_result' = th_result
    /\ UNCHANGED <<request_cache, th_key, th_data, th_sorted, th_late,
                   threadFrame>>

\* Line 67: fetch_func() computes the answer from the database as it is.
ThFetch(t) ==
    /\ th_pc[t] = "fetch"
    /\ th_data' = [th_data EXCEPT ![t] = db_version]
    /\ th_pc' = [th_pc EXCEPT ![t] = "store"]
    /\ UNCHANGED <<request_cache, th_key, th_sorted, th_result, th_late,
                   threadFrame>>

\* Line 68: the entry is stored in the dict the global names now.
ThStore(t) ==
    /\ th_pc[t] = "store"
    /\ request_cache' = Store(request_cache, th_key[t], th_data[t], cache_now)
    /\ th_pc' = [th_pc EXCEPT ![t] = "len"]
    /\ UNCHANGED <<th_key, th_data, th_sorted, th_result, th_late,
                   threadFrame>>

\* Lines 71 and 77: the size test; the call returns when it fails.
ThLen(t) ==
    /\ th_pc[t] = "len"
    /\ IF Len(request_cache) > CACHE_MAX_ENTRIES
       THEN /\ th_pc' = [th_pc EXCEPT ![t] = "sort"]
            /\ th_result' = th_result
       ELSE /\ th_pc' = [th_pc EXCEPT ![t] = "returned"]
            /\ th_result' = [th_result EXCEPT ![t] = ThReturn(th_data[t])]
    /\ UNCHANGED <<request_cache, th_key, th_data, th_sorted, th_late,
                   threadFrame>>

\* Lines 73-74: the items are sorted and the first 50 picked.
ThSort(t) ==
    /\ th_pc[t] = "sort"
    /\ th_sorted' = [th_sorted EXCEPT ![t] = SortedFirst(request_cache)]
    /\ th_pc' = [th_pc EXCEPT ![t] = "del"]
    /\ UNCHANGED <<request_cache, th_key, th_data, th_result, th_late,
                   threadFrame>>

\* Lines 74-77: one iteration of the deletion loop, or its end and the
\* return. del raises KeyError for a key the dict no longer holds.
ThDel(t) ==
    /\ th_pc[t] = "del"
    /\ IF th_sorted[t] = <<>>
       THEN /\ th_pc' = [th_pc EXCEPT ![t] = "returned"]
            /\ th_result' = [th_result EXCEPT ![t] = ThReturn(th_data[t])]
            /\ UNCHANGED <<request_cache, th_sorted>>
       ELSE IF Head(th_sorted[t]) \in KeysOf(request_cache)
       THEN /\ request_cache' = Delete(request_cache, Head(th_sorted[t]))
            /\ th_sorted' = [th_sorted EXCEPT ![t] = Tail(th_sorted[t])]
            /\ UNCHANGED <<th_pc, th_result>>
       ELSE /\ th_pc' = [th_pc EXCEPT ![t] = "failed"]
            /\ th_result' = [th_result EXCEPT ![t] = ThKeyError("cleanup")]
            /\ UNCHANGED <<request_cache, th_sorted>>
    /\ UNCHANGED <<th_key, th_data, th_late, threadFrame>>

\* The cache stays below its limit in these runs, so the cleanup of lines
\* 73-75 is never entered.
SyncNext ==
    \/ SyncAuth
    \/ SyncRunReturns
    \/ SyncRunRaises
    \/ SyncClear
    \/ \E t \in Threads :
        \/ ThStart(t)
        \/ ThContains(t)
        \/ ThLookup(t)
        \/ ThFetch(t)
        \/ ThStore(t)
        \/ ThLen(t)

SyncSpec == SyncInit /\ [][SyncNext]_vars

OverflowNext ==
    \E t \in Threads :
        \/ ThStart(t)
        \/ ThContains(t)
        \/ ThLookup(t)
        \/ ThFetch(t)
        \/ ThStore(t)
        \/ ThLen(t)
        \/ ThSort(t)
        \/ ThDel(t)

OverflowSpec == OverflowInit /\ [][OverflowNext]_vars

----------------------------------------------------------------------------
(* Properties of the sync endpoint and of concurrent requests.             *)

C28_Inv ==
    /\ sync_ran > 0 => (Truthy(sync_token) /\ sync_header = sync_token)
    /\ sync_pc = "done" =>
        /\ ~Truthy(sync_token) => sync_status = 503
        /\ (Truthy(sync_token) /\ sync_header # sync_token) =>
                sync_status = 401
        /\ sync_status \in {503, 401} => sync_ran = 0
        /\ sync_status \in {503, 401, 500} => db_version = 0

C28_Step ==
    sync_pc' # sync_pc =>
        /\ request_cache' # request_cache =>
            /\ Truthy(sync_token) /\ sync_header = sync_token
            /\ sync_ran = 1
            /\ sync_status' = 200
            /\ request_cache' = <<>>
        /\ sync_status' \in {503, 401, 500} => request_cache' = request_cache

\* C28: sync_all is run and the request cache is cleared only when
\* SYNC_TOKEN is configured and the X-Sync-Token header equals it; without
\* a configured token the answer is 503, with a missing or different
\* header 401, and in both cases, and when the sync raises, the handler
\* leaves the request cache with the entries it had.
C28_SyncGuarded == [](C28_Inv) /\ [][C28_Step]_vars

\* A request without the header is answered 401 and the two entries stay.
C28_Witness ==
    /\ sync_pc = "done"
    /\ sync_token = "s"
    /\ sync_header = None
    /\ sync_status = 401
    /\ sync_ran = 0
    /\ Len(request_cache) = 2

\* The sync raised: 500, and the entries stay.
C28_WitnessRaised ==
    /\ sync_pc = "done"
    /\ sync_status = 500
    /\ sync_ran = 1
    /\ Len(request_cache) = 2

\* C29: a /recommend request that begins after POST /api/sync completed is
\* answered with data fetched after the sync, in every interleaving of the
\* sync with requests that were in flight while it ran.
C29_FreshAfterSync ==
    \A t \in Threads :
        (th_pc[t] = "returned" /\ th_late[t]) =>
            th_result[t] = ThReturn(db_version)

\* Without a request in flight across the sync, a later request is
\* answered with the data of the database.
C29_FreshWhenQuiet ==
    \A t \in Threads :
        (th_pc[t] = "returned" /\ th_late[t]
            /\ \A u \in Threads : th_late[u] \/ th_pc[u] = "idle") =>
            th_result[t] = ThReturn(db_version)

\* C30: no concurrent call fails in the cleanup by deleting a key that
\* another call already removed, and when all calls have returned the
\* cache holds at most 100 entries.
C30_CleanupSafe ==
    /\ \A t \in Threads : th_result[t] # ThKeyError("cleanup")
    /\ (\A t \in Threads : th_pc[t] = "returned") =>
            Len(request_cache) <= 100

\* When no call is in progress the cache holds at most 100 entries.
C30_BoundedWhenQuiet ==
    (\A t \in Threads : th_pc[t] \in {"returned", "failed"}) =>
        Len(request_cache) <= 100

====
